---- MODULE Spec2Model ----
(***************************************************************************)
(* Order-placement saga of the orders service (services/order/index.js),   *)
(* together with the parts of the products and cart services it talks to   *)
(* and the opossum circuit breakers that wrap every outbound call.         *)
(*                                                                         *)
(* Node runs every handler to its next `await` without interruption, so a  *)
(* saga is a process whose steps are the code sections between two awaits. *)
(* `running` names the saga that is in the middle of a synchronous section *)
(* (a rejected breaker call resolves at once and the code carries on       *)
(* before any other request is served); no other action is taken until it  *)
(* suspends.                                                               *)
(***************************************************************************)
EXTENDS Integers, Sequences, FiniteSets, TLC

\* ---------------------------------------------------------------- bounds
\* Ten workloads are explored: concurrent orders racing for the same stock
\* and the same breakers; the same race right after an earlier order whose
\* calls went unanswered, which is what it takes to open the products
\* breaker while an order is between two items; a client that places one
\* order after the other, right after such an earlier order; a single order
\* with a cart edit arriving while it is processed; a single order with a
\* direct status update arriving while it is processed; a burst of well-formed orders on an empty cart,
\* which is what it takes to open the cart breaker, try it half-open and
\* reject a call during the trial; a single well-formed order whose status
\* operations staff set more than once; a single well-formed order while a
\* client reads the ledger; an order submitted twice from a cart the stock
\* covers twice; and a single order while the shop withdraws and relists
\* products.
RaceRequests == 2     \* placeOrder invocations of the race workload
SoloRequests == 1     \* placeOrder invocations of the solo workload
SoloAdds == 1         \* POST /api/cart/add calls of the solo workload
SoloUpdates == 1      \* PUT /api/orders/:orderId/status calls of the solo workload
OpsUpdates == 2       \* PUT /api/orders/:orderId/status calls of the operations workload
ReportReads == 1      \* GET requests of the reporting workload
BurstRequests == 7    \* placeOrder invocations of the burst workload
MaxQty == 2           \* largest quantity of one add

Users == {"u1", "u2"}

\* ------------------------------------------------- products service: data
\* Three rows of the mock products table: "MacBook Pro 14-inch" (id 3),
\* "Canon EOS R6 Mark II" (id 8) and "Low Stock Product" (id 10).  Prices are
\* kept in cents.
Products == {3, 8, 10}
InitStock == [p \in Products |-> IF p = 3 THEN 20 ELSE IF p = 8 THEN 15 ELSE 2]
Price == [p \in Products |-> IF p = 3 THEN 199999 ELSE IF p = 8 THEN 249999 ELSE 4999]

\* ------------------------------------------------------ orders service: data
InitOrderIdCounter == 1000

ORDER_STATUS == {"pending", "processing", "confirmed", "cancelled", "shipped", "delivered"}
PAYMENT_STATUS == {"pending", "processing", "completed", "failed", "refunded"}

\* circuitBreakerOptions
volumeThreshold == 5
errorThresholdPercentage == 50

BreakerNames == {"products-service", "cart-service", "notifications-service"}

VARIABLES
  products,        \* products service: id -> [stock, available]
  carts,           \* cart service: userId -> [items, totalItems, totalAmount]
  orders,          \* orders service: the ledger, a sequence of orders
  orderIdCounter,  \* orders service: last id handed out
  breaker,         \* orders service: breaker name -> opossum breaker state
  saga,            \* one record per placeOrder invocation (its locals and position)
  running,         \* the invocation inside a synchronous section, or 0
  nreq,            \* placeOrder invocations received so far
  late,            \* requests whose caller got no answer, possibly still on their way
  overridden,      \* ids of orders a direct status update was applied to
  nadds,           \* cart adds so far
  nupdates,        \* direct status updates so far
  workload,        \* the numbers of requests the clients send in this run
  replies          \* the answers to the GET requests served so far

vars == <<products, carts, orders, orderIdCounter, breaker, saga, running, nreq,
          late, overridden, nadds, nupdates, workload, replies>>

MaxOf(S) == CHOOSE x \in S : \A y \in S : y <= x
MaxRequests == MaxOf({RaceRequests, SoloRequests, BurstRequests})
Requests == 1..MaxRequests

\* ------------------------------------------------------------- helpers
RECURSIVE SumSeq(_)
SumSeq(s) == IF s = <<>> THEN 0 ELSE Head(s) + SumSeq(Tail(s))

Map(s, F(_)) == [i \in 1..Len(s) |-> F(s[i])]

\* ------------------------------------------------------- circuit breaker
\* opossum: state, the pendingClose flag of a half-open breaker that has not
\* yet let its trial call through, and the rolling-window totals.
NewBreaker ==
  [state |-> "closed", pendingClose |-> FALSE, fires |-> 0, failures |-> 0, successes |-> 0]

\* Faulty variant: only a half-open breaker whose trial is under way rejects.
RejectsOnlyDuringTrial(b) == b.state = "halfOpen" /\ ~b.pendingClose

\* fire(): the call is rejected (and answered by the fallback) when the
\* breaker is not closed and no trial call is due.
Rejects(b) == b.state # "closed" /\ ~b.pendingClose

\* Faulty variant: a call made while another call's count is being written
\* overwrites it, so a window that holds a call already does not count the next.
FireLosesUpdate(b) ==
  [b EXCEPT !.fires = IF @ = 0 THEN 1 ELSE @,
            !.pendingClose = IF b.state # "closed" /\ ~b.pendingClose THEN @ ELSE FALSE]

\* Faulty variant: the call let through leaves the trial pending.
FireKeepsTrial(b) == [b EXCEPT !.fires = @ + 1]

\* fire(): every call is counted; a call let through consumes the trial.
Fire(b) ==
  [b EXCEPT !.fires = @ + 1,
            !.pendingClose = IF Rejects(b) THEN @ ELSE FALSE]

Open(b) == [b EXCEPT !.state = "open", !.pendingClose = FALSE]

\* Faulty variant: a success is counted and the breaker stays as it is.
RecordSuccessOnly(b) == [b EXCEPT !.successes = @ + 1]

\* 'success': counted; a half-open breaker closes.
RecordSuccess(b) ==
  LET c == [b EXCEPT !.successes = @ + 1] IN
  IF c.state = "halfOpen" THEN [c EXCEPT !.state = "closed", !.pendingClose = FALSE] ELSE c

\* Faulty variant: the breaker opens already when the error rate reaches the
\* threshold.
RecordFailureAtThreshold(b) ==
  LET c == [b EXCEPT !.failures = @ + 1] IN
  IF c.fires < volumeThreshold /\ c.state # "halfOpen" THEN c
  ELSE IF c.failures * 100 >= errorThresholdPercentage * c.fires \/ c.state = "halfOpen"
       THEN [c EXCEPT !.state = "open", !.pendingClose = FALSE]
       ELSE c

\* 'failure' / 'timeout': counted, then the breaker opens when half-open, or
\* when the window holds enough calls and the error rate is over the threshold.
RecordFailure(b) ==
  LET c == [b EXCEPT !.failures = @ + 1] IN
  IF c.fires < volumeThreshold /\ c.state # "halfOpen" THEN c
  ELSE IF c.failures * 100 > errorThresholdPercentage * c.fires \/ c.state = "halfOpen"
       THEN Open(c)
       ELSE c

\* The fallback registered on every breaker; it is the value of any call that
\* was rejected, failed or timed out.
Fallback == [success |-> FALSE, fallback |-> TRUE]

\* -------------------------------------------------- products service: stock
\* PUT /api/products/:id/stock: is the request accepted?
\* Faulty variant: the stock is not compared with the quantity.
StockAcceptedUnchecked(prods, p, q, op) ==
  /\ q > 0
  /\ p \in DOMAIN prods

StockAccepted(prods, p, q, op) ==
  /\ q > 0
  /\ p \in DOMAIN prods
  /\ (op = "decrease" => prods[p].stock >= q)

\* Faulty variant: the stock is updated and the availability flag is left.
StockAppliedKeepsFlag(prods, p, q, op) ==
  LET s == IF op = "decrease" THEN prods[p].stock - q ELSE prods[p].stock + q IN
  [prods EXCEPT ![p].stock = s]

\* PUT /api/products/:id/stock: the table after an accepted request.
StockApplied(prods, p, q, op) ==
  LET s == IF op = "decrease" THEN prods[p].stock - q ELSE prods[p].stock + q IN
  [prods EXCEPT ![p] = [stock |-> s, available |-> s > 0]]

\* POST /api/products/check-availability, for one item.
ItemAvailable(prods, item) ==
  /\ item.productId \in DOMAIN prods
  /\ prods[item.productId].available
  /\ prods[item.productId].stock >= item.quantity

\* ------------------------------------------------------- cart service
EmptyCart == [items |-> <<>>, totalItems |-> 0, totalAmount |-> 0]

\* calculateCartTotals
calculateCartTotals(cart) ==
  [cart EXCEPT !.totalItems = SumSeq(Map(cart.items, LAMBDA it : it.quantity)),
               !.totalAmount = SumSeq(Map(cart.items, LAMBDA it : it.price * it.quantity))]

CartIndexOf(items, p) ==
  IF \E i \in 1..Len(items) : items[i].productId = p
  THEN CHOOSE i \in 1..Len(items) : items[i].productId = p
  ELSE 0

\* POST /api/cart/add, after the product was validated.
CartAdd(cart, p, q) ==
  LET i == CartIndexOf(cart.items, p) IN
  calculateCartTotals(
    IF i # 0
    THEN [cart EXCEPT !.items[i].quantity = @ + q]
    ELSE [cart EXCEPT !.items = Append(@, [productId |-> p, price |-> Price[p], quantity |-> q])])

\* Faulty variant: the prices are refreshed and the totals are left as they were.
CartValidatedStaleTotals(cart) ==
  [cart EXCEPT !.items = Map(cart.items, LAMBDA it : [it EXCEPT !.price = Price[it.productId]])]

\* POST /api/cart/validate/:userId on success: prices refreshed, totals recomputed.
CartValidated(cart) ==
  calculateCartTotals(
    [cart EXCEPT !.items = Map(cart.items, LAMBDA it : [it EXCEPT !.price = Price[it.productId]])])

\* Faulty variant: the items are removed and the totals are left as they were.
CartClearedStaleTotals(cart) == [cart EXCEPT !.items = <<>>]

\* DELETE /api/cart/clear/:userId
CartCleared(cart) == calculateCartTotals([cart EXCEPT !.items = <<>>])

\* The carts the users have filled (POST /api/cart/add) before the first
\* order is placed.
InitCarts ==
  {EmptyCart,
   CartAdd(EmptyCart, 10, 2),
   CartAdd(CartAdd(CartAdd(EmptyCart, 3, 1), 8, 1), 10, 2)}

\* A cart filled before PUT /api/products/8 lowered the price of product 8:
\* the item still carries the price of the time it was added.
\* The cart of the earlier order.
EarlierCart == CartAdd(CartAdd(EmptyCart, 3, 1), 8, 1)

\* The cart of the two racing orders: the second item asks for all the stock
\* of product 10.
RaceCart == CartAdd(CartAdd(EmptyCart, 3, 1), 10, 2)

RepricedCart ==
  LET cart == CartAdd(CartAdd(EmptyCart, 8, 1), 10, 2) IN
  calculateCartTotals([cart EXCEPT !.items[1].price = 2 * Price[8]])

\* The cart of a user who places no order and edits no cart during the run.
BystanderCart == CartAdd(EmptyCart, 3, 1)

\* A cart whose one item is in stock many times over: the order can be
\* placed again from the same cart.
ResubmittedCart == CartAdd(EmptyCart, 3, 1)

\* `users` are the users who place orders and edit their carts during the
\* run, `carts` the carts they may have at its start;
\* `reads` is the number of GET requests sent to the orders service;
\* `earlier` is the number of orders placed before the run starts;
\* `malformed` says whether clients also send requests without a credential
\* or without a required field;
\* `edits` says whether the shop edits products (PUT /api/products/:id)
\* during the run;
\* `sequential` says whether the client waits for the answer to one order
\* before it places the next (a client that retries).
Workloads ==
  {[requests |-> RaceRequests, adds |-> 0, updates |-> 0, users |-> {"u1"},
    carts |-> {EmptyCart, CartAdd(EmptyCart, 10, 2), RaceCart}, earlier |-> 0,
    malformed |-> TRUE, reads |-> 0, edits |-> FALSE, sequential |-> FALSE],
   [requests |-> RaceRequests + 1, adds |-> 0, updates |-> 0, users |-> {"u1"},
    carts |-> {EarlierCart}, earlier |-> 1, malformed |-> FALSE, reads |-> 0, edits |-> FALSE,
    sequential |-> FALSE],
   [requests |-> SoloRequests, adds |-> SoloAdds, updates |-> 0, users |-> {"u1"},
    carts |-> InitCarts, earlier |-> 0, malformed |-> TRUE, reads |-> 0, edits |-> FALSE, sequential |-> FALSE],
   [requests |-> SoloRequests, adds |-> 0, updates |-> SoloUpdates, users |-> {"u1"},
    carts |-> InitCarts \cup {EarlierCart}, earlier |-> 0, malformed |-> FALSE, reads |-> 0, edits |-> FALSE, sequential |-> FALSE],
   [requests |-> BurstRequests, adds |-> 0, updates |-> 0, users |-> {"u1"},
    carts |-> {EmptyCart}, earlier |-> 0, malformed |-> FALSE, reads |-> 0, edits |-> FALSE, sequential |-> FALSE],
   [requests |-> SoloRequests, adds |-> 0, updates |-> OpsUpdates, users |-> Users,
    carts |-> {RepricedCart}, earlier |-> 0, malformed |-> FALSE, reads |-> 0, edits |-> FALSE, sequential |-> FALSE],
   [requests |-> SoloRequests, adds |-> 0, updates |-> 0, users |-> {"u1"},
    carts |-> {CartAdd(EmptyCart, 10, 2)}, earlier |-> 0, malformed |-> FALSE,
    reads |-> ReportReads, edits |-> FALSE, sequential |-> FALSE],
   [requests |-> RaceRequests, adds |-> 0, updates |-> 0, users |-> {"u1"},
    carts |-> {ResubmittedCart}, earlier |-> 0, malformed |-> FALSE, reads |-> 0, edits |-> FALSE, sequential |-> FALSE],
   [requests |-> SoloRequests, adds |-> 0, updates |-> 0, users |-> {"u1"},
    carts |-> {CartAdd(CartAdd(CartAdd(EmptyCart, 3, 1), 8, 1), 10, 2)}, earlier |-> 0,
    malformed |-> FALSE, reads |-> 0, edits |-> TRUE, sequential |-> FALSE],
   [requests |-> RaceRequests + 1, adds |-> 0, updates |-> 0, users |-> {"u1"},
    carts |-> {EarlierCart}, earlier |-> 1, malformed |-> FALSE, reads |-> 0, edits |-> FALSE,
    sequential |-> TRUE]}

\* ------------------------------------------------------- orders service
NoReason == [text |-> "", product |-> 0]
NoResponse == [code |-> 0, order |-> 0, reason |-> FALSE, paymentError |-> FALSE]

NewSaga ==
  [pc |-> "idle", userId |-> "", authToken |-> FALSE, fields |-> FALSE,
   validation |-> "none", cart |-> EmptyCart, order |-> 0,
   idx |-> 1, stockUpdates |-> <<>>, j |-> 1,
   inventoryReservationFailed |-> FALSE, failedProduct |-> 0, failKind |-> "none",
   paymentResult |-> "none", response |-> NoResponse, calls |-> <<>>,
   decApplied |-> [p \in Products |-> 0], incApplied |-> [p \in Products |-> 0]]

\* a line of the record of outbound calls of one invocation
Call(op, p, q, sent) == [op |-> op, productId |-> p, quantity |-> q, sent |-> sent]

\* the breaker each helper fires; processPayment goes through none
BreakerOf(op) ==
  IF op \in {"decrease", "increase"} THEN "products-service"
  ELSE IF op \in {"validate", "clear"} THEN "cart-service"
  ELSE IF op \in {"order_cancelled", "order_confirmed"} THEN "notifications-service"
  ELSE "none"

\* the positions in which an invocation waits for the answer to a call
Waiting ==
  {"validateWait", "reserveWait", "rollbackWait", "clearWait", "notifyCancelWait", "notifyWait"}

\* res.status(code).json(...)
Respond(s, code, order, reason, paymentError) ==
  [s EXCEPT !.pc = "done",
            !.response = [code |-> code, order |-> order, reason |-> reason,
                          paymentError |-> paymentError]]

\* Faulty variant: the order is created without its first timeline entry.
NewOrderNoEntry(id, userId, cart) ==
  [id |-> id, userId |-> userId,
   items |-> Map(cart.items, LAMBDA it :
               [productId |-> it.productId, price |-> it.price,
                quantity |-> it.quantity, subtotal |-> it.price * it.quantity]),
   totalAmount |-> cart.totalAmount, totalItems |-> cart.totalItems,
   status |-> "pending", paymentStatus |-> "pending",
   cancellationReason |-> NoReason, paymentDetails |-> "none",
   timeline |-> << >>]

\* step 2: the order built from the validated cart
NewOrder(id, userId, cart) ==
  [id |-> id, userId |-> userId,
   items |-> Map(cart.items, LAMBDA it :
               [productId |-> it.productId, price |-> it.price,
                quantity |-> it.quantity, subtotal |-> it.price * it.quantity]),
   totalAmount |-> cart.totalAmount, totalItems |-> cart.totalItems,
   status |-> "pending", paymentStatus |-> "pending",
   cancellationReason |-> NoReason, paymentDetails |-> "none",
   timeline |-> << [status |-> "pending", message |-> "Order created and pending validation"] >>]

\* ------------------------------------------------------ products: edit
\* PUT /api/products/:id with the body {available}: the shop withdraws a
\* product from sale or lists it again.  The fields of the body replace the
\* product's; the flag is recomputed only when the body names a stock.
UpdateProduct(p, available) ==
  /\ running = 0
  /\ workload.edits
  /\ products[p].available # available
  /\ products' = [products EXCEPT ![p].available = available]
  /\ UNCHANGED <<carts, orders, orderIdCounter, breaker, saga, running, nreq, late,
                 overridden, nadds, nupdates, workload, replies>>

\* ------------------------------------------------------------ cart: add
\* POST /api/cart/add with a product that validates and has the stock.
AddToCart(u, p, q) ==
  /\ running = 0
  /\ nadds < workload.adds
  /\ u \in workload.users
  /\ products[p].available /\ products[p].stock >= q
  /\ LET i == CartIndexOf(carts[u].items, p) IN
     i # 0 => carts[u].items[i].quantity + q <= products[p].stock
  /\ carts' = [carts EXCEPT ![u] = CartAdd(@, p, q)]
  /\ nadds' = nadds + 1
  /\ UNCHANGED <<products, orders, orderIdCounter, breaker, saga, running, nreq,
                 late, overridden, nupdates, workload, replies>>

\* ---------------------------------------------------- placeOrder: arrival
\* POST /api/orders/place up to the await of the cart validation.
PlaceOrder(u, hasToken, hasFields) ==
  /\ running = 0
  /\ nreq < workload.requests
  /\ u \in workload.users
  /\ (hasToken /\ hasFields) \/ workload.malformed
  /\ workload.sequential => \A t \in Requests : saga[t].pc \in {"idle", "done"}
  /\ nreq' = nreq + 1
  /\ LET r == nreq + 1
         s == [saga[r] EXCEPT !.userId = u, !.authToken = hasToken, !.fields = hasFields]
         b == breaker["cart-service"]
     IN
     IF ~hasToken THEN
        /\ saga' = [saga EXCEPT ![r] = Respond(s, 401, 0, FALSE, FALSE)]
        /\ UNCHANGED breaker
     ELSE IF ~hasFields THEN
        /\ saga' = [saga EXCEPT ![r] = Respond(s, 400, 0, FALSE, FALSE)]
        /\ UNCHANGED breaker
     ELSE
        /\ breaker' = [breaker EXCEPT !["cart-service"] = Fire(b)]
        /\ saga' = [saga EXCEPT ![r] =
             LET t == [s EXCEPT !.calls = Append(@, Call("validate", 0, 0, ~Rejects(b)))] IN
             IF Rejects(b)
             THEN Respond([t EXCEPT !.validation = "rejected"], 400, 0, FALSE, FALSE)
             ELSE [t EXCEPT !.pc = "validateWait"]]
  /\ UNCHANGED <<products, carts, orders, orderIdCounter, running, late, overridden,
                 nadds, nupdates, workload, replies>>

\* Faulty variant: only a transport error or a timeout is raised; a non-2xx
\* answer is returned to the caller like any other body.
RaisedTransportOnly(outcome, accepted) == outcome # "handled"

\* callExternalService inside breaker.fire: the call is raised as a failure
\* when no answer came in time or the answer's status is not 2xx.
Raised(outcome, accepted) == ~(outcome = "handled" /\ accepted)

\* --------------------------------------------- placeOrder: cart validated
\* The answer of POST /api/cart/validate/:userId as the orders service sees
\* it: the fallback for every non-2xx answer, transport error or timeout.
ValidateAnswer(cart, prods, outcome, availabilityOK) ==
  IF outcome = "handled" /\ Len(cart.items) > 0 /\ availabilityOK
  THEN [success |-> TRUE, fallback |-> FALSE, cart |-> CartValidated(cart),
        allAvailable |-> \A i \in 1..Len(cart.items) : ItemAvailable(prods, cart.items[i])]
  ELSE [success |-> FALSE, fallback |-> TRUE, cart |-> EmptyCart, allAvailable |-> FALSE]

\* Faulty variant: the allAvailable flag of the validation is not looked at.
ValidationPassedSuccessOnly(cartValidation) ==
  /\ cartValidation.success
  /\ Len(cartValidation.cart.items) # 0

\* The three checks between the validation and the creation of the order.
ValidationPassed(cartValidation) ==
  /\ cartValidation.success
  /\ cartValidation.allAvailable
  /\ Len(cartValidation.cart.items) # 0

\* What the validation came to, as the orders service can and cannot see it.
ValidationKind(cart, outcome, availabilityOK, cartValidation) ==
  IF outcome = "failed" THEN "failed"
  ELSE IF Len(cart.items) = 0 THEN "empty"
  ELSE IF ~availabilityOK THEN "unchecked"
  ELSE IF ~cartValidation.allAvailable THEN "unavailable"
  ELSE "passed"

\* Faulty variant: the counter is read and not advanced.
generateOrderIdStale(counter) == counter

\* return ++orderIdCounter
generateOrderId(counter) == counter + 1

\* Steps 1 and 2: the validation returns; an order is created when it passed.
ValidateReturn(r, outcome, availabilityOK) ==
  /\ running = 0
  /\ saga[r].pc = "validateWait"
  /\ LET s == [saga[r] EXCEPT !.validation =
                 ValidationKind(carts[saga[r].userId], outcome, availabilityOK,
                   ValidateAnswer(carts[saga[r].userId], products, outcome, availabilityOK))]
         u == s.userId
         cartValidation == ValidateAnswer(carts[u], products, outcome, availabilityOK)
         orderId == generateOrderId(orderIdCounter)
     IN
     /\ breaker' = [breaker EXCEPT !["cart-service"] =
                      IF Raised(outcome, Len(carts[u].items) > 0 /\ availabilityOK)
                      THEN RecordFailure(@) ELSE RecordSuccess(@)]
     /\ carts' = IF cartValidation.success
                 THEN [carts EXCEPT ![u] = cartValidation.cart] ELSE carts
     /\ IF ~ValidationPassed(cartValidation)
        THEN /\ saga' = [saga EXCEPT ![r] = Respond(s, 400, 0, FALSE, FALSE)]
             /\ UNCHANGED <<orders, orderIdCounter, running>>
        ELSE /\ orderIdCounter' = orderId
             /\ orders' = Append(orders, NewOrder(orderId, u, cartValidation.cart))
             /\ saga' = [saga EXCEPT ![r] =
                  [s EXCEPT !.cart = cartValidation.cart, !.order = Len(orders) + 1,
                            !.pc = "reserve", !.idx = 1]]
             /\ running' = r
  /\ UNCHANGED <<products, nreq, late, overridden, nadds, nupdates, workload, replies>>

\* ------------------------------------------------ placeOrder: reservation
\* The caller's view of one stock call: the handler's answer when the call
\* went through and was answered in time, the fallback otherwise.
StockAnswer(prods, p, q, op, outcome) ==
  IF outcome = "handled" /\ StockAccepted(prods, p, q, op)
  THEN [success |-> TRUE, fallback |-> FALSE]
  ELSE Fallback

\* What happened to a stock call that did not succeed: the service refused
\* it ("business") or no answer came ("failed").
FailKind(outcome) ==
  IF outcome = "handled" THEN "business" ELSE "failed"

\* Faulty variant: the result of the decrease is not looked at.
ReservationNeverFailed(stockUpdate) == FALSE

\* if (!stockUpdate.success)
ReservationFailed(stockUpdate) == ~stockUpdate.success

\* the reservation record pushed after a successful decrease
Reserved(item) == [productId |-> item.productId, quantity |-> item.quantity, success |-> TRUE]

\* Faulty variant: the loop has no break and carries on after a failed decrease.
AfterDecreaseNoBreak(s, stockUpdate, kind) ==
  LET item == s.cart.items[s.idx]
      last == s.idx + 1 > Len(s.cart.items)
  IN
  IF ~stockUpdate.success
  THEN [s EXCEPT !.inventoryReservationFailed = TRUE,
                 !.failedProduct = item.productId,
                 !.failKind = kind,
                 !.idx = IF last THEN @ ELSE @ + 1,
                 !.pc = IF last THEN "rollback" ELSE "reserve", !.j = 1]
  ELSE [s EXCEPT !.stockUpdates = Append(@, Reserved(item)),
                 !.idx = @ + 1,
                 !.pc = IF last
                        THEN (IF s.inventoryReservationFailed THEN "rollback" ELSE "process")
                        ELSE "reserve"]

\* The reservation loop after the answer to the decrease of item idx.
AfterDecrease(s, stockUpdate, kind) ==
  LET item == s.cart.items[s.idx] IN
  IF ReservationFailed(stockUpdate)
  THEN [s EXCEPT !.inventoryReservationFailed = TRUE,
                 !.failedProduct = item.productId,
                 !.failKind = kind,
                 !.pc = "rollback", !.j = 1]
  ELSE [s EXCEPT !.stockUpdates = Append(@, Reserved(item)),
                 !.idx = @ + 1,
                 !.pc = IF s.idx + 1 > Len(s.cart.items) THEN "process" ELSE "reserve"]

\* Step 3, one turn of the loop up to the await: updateProductStock is called.
Reserve(r) ==
  /\ running = r
  /\ saga[r].pc = "reserve"
  /\ LET s == saga[r]
         item == s.cart.items[s.idx]
         b == breaker["products-service"]
         t == [s EXCEPT !.calls =
                 Append(@, Call("decrease", item.productId, item.quantity, ~Rejects(b)))]
     IN
     /\ breaker' = [breaker EXCEPT !["products-service"] = Fire(b)]
     /\ IF Rejects(b)
        THEN /\ saga' = [saga EXCEPT ![r] = AfterDecrease(t, Fallback, "rejected")]
             /\ UNCHANGED running
        ELSE /\ saga' = [saga EXCEPT ![r] = [t EXCEPT !.pc = "reserveWait"]]
             /\ running' = 0
  /\ UNCHANGED <<products, carts, orders, orderIdCounter, nreq, late, overridden,
                 nadds, nupdates, workload, replies>>

\* a request whose caller got no answer, possibly still on its way to the service
Late(r, op, p, q) == [r |-> r, op |-> op, productId |-> p, quantity |-> q]

\* Step 3: the decrease call returns (answer, transport error or timeout).
ReserveReturn(r, outcome) ==
  /\ running = 0
  /\ saga[r].pc = "reserveWait"
  /\ LET s == saga[r]
         item == s.cart.items[s.idx]
         p == item.productId
         q == item.quantity
         stockUpdate == StockAnswer(products, p, q, "decrease", outcome)
         t == IF stockUpdate.success
              THEN [s EXCEPT !.decApplied[p] = @ + q] ELSE s
     IN
     /\ products' = IF stockUpdate.success
                    THEN StockApplied(products, p, q, "decrease") ELSE products
     /\ breaker' = [breaker EXCEPT !["products-service"] =
                      IF Raised(outcome, StockAccepted(products, p, q, "decrease"))
                      THEN RecordFailure(@) ELSE RecordSuccess(@)]
     /\ late' = IF outcome = "failed" THEN late \cup {Late(r, "decrease", p, q)} ELSE late
     /\ saga' = [saga EXCEPT ![r] =
                   AfterDecrease(t, stockUpdate, FailKind(outcome))]
     /\ running' = r
  /\ UNCHANGED <<carts, orders, orderIdCounter, nreq, overridden, nadds, nupdates, workload, replies>>

\* Faulty variant: a call that was let through is never answered and never
\* timed out.
NoOutcome == {}

\* How a call that was let through ends for the caller: "handled", the service
\* answered in time; "failed", a transport error or the breaker timeout came
\* first.  The request of a failed call may still reach the service.
Outcomes == {"handled", "failed"}

\* ----------------------------------------------------- placeOrder: payment
\* order.timeline.push({status, message})
TimelinePush(o, status, message) ==
  [o EXCEPT !.timeline = Append(@, [status |-> status, message |-> message])]

\* Faulty variant: step 4 sets the status and leaves the payment status.
ProcessingOrderStatusOnly(o) ==
  TimelinePush([o EXCEPT !.status = "processing"],
               "processing", "Inventory reserved, processing payment")

\* Step 4: status and paymentStatus set to processing.
ProcessingOrder(o) ==
  TimelinePush([o EXCEPT !.status = "processing", !.paymentStatus = "processing"],
               "processing", "Inventory reserved, processing payment")

\* Step 4 up to the await of processPayment.
Process(r) ==
  /\ running = r
  /\ saga[r].pc = "process"
  /\ orders' = [orders EXCEPT ![saga[r].order] = ProcessingOrder(@)]
  /\ saga' = [saga EXCEPT ![r] =
       [@ EXCEPT !.pc = "paymentWait",
                 !.calls = Append(@, Call("payment", 0, 0, TRUE))]]
  /\ running' = 0
  /\ UNCHANGED <<products, carts, orderIdCounter, breaker, nreq, late, overridden,
                 nadds, nupdates, workload, replies>>

\* Faulty variant: the result of the payment is recorded and not looked at.
PaymentReturnUnchecked(r, isSuccessful) ==
  /\ running = 0
  /\ saga[r].pc = "paymentWait"
  /\ saga' = [saga EXCEPT ![r] =
       [@ EXCEPT !.paymentResult = IF isSuccessful THEN "completed" ELSE "failed",
                 !.pc = "confirm"]]
  /\ running' = r
  /\ UNCHANGED <<products, carts, orders, orderIdCounter, breaker, nreq, late,
                 overridden, nadds, nupdates, workload, replies>>

\* processPayment resolves: success or decline.
PaymentReturn(r, isSuccessful) ==
  /\ running = 0
  /\ saga[r].pc = "paymentWait"
  /\ saga' = [saga EXCEPT ![r] =
       IF isSuccessful
       THEN [@ EXCEPT !.paymentResult = "completed", !.pc = "confirm"]
       ELSE [@ EXCEPT !.paymentResult = "failed", !.pc = "rollback", !.j = 1]]
  /\ running' = r
  /\ UNCHANGED <<products, carts, orders, orderIdCounter, breaker, nreq, late,
                 overridden, nadds, nupdates, workload, replies>>

\* ------------------------------------------------ placeOrder: compensation
\* Faulty variant: after a failed reservation the rollback walks the cart up
\* to and including the failing item.
RollbackListThroughFailed(s) ==
  IF s.inventoryReservationFailed
  THEN Map(SubSeq(s.cart.items, 1, s.idx), Reserved)
  ELSE s.stockUpdates

\* the list both rollback loops walk
RollbackList(s) == s.stockUpdates

\* One turn of a rollback loop up to the await: restoreProductStock is called.
\* A rejected call returns the fallback, which the loop does not look at.
Rollback(r) ==
  /\ running = r
  /\ saga[r].pc = "rollback"
  /\ LET s == saga[r]
         b == breaker["products-service"]
     IN
     IF s.j > Len(RollbackList(s))
     THEN /\ saga' = [saga EXCEPT ![r] = [s EXCEPT !.pc = "cancel"]]
          /\ UNCHANGED <<breaker, running>>
     ELSE LET update == RollbackList(s)[s.j]
              t == [s EXCEPT !.calls =
                      Append(@, Call("increase", update.productId, update.quantity, ~Rejects(b)))]
          IN
          /\ breaker' = [breaker EXCEPT !["products-service"] = Fire(b)]
          /\ IF Rejects(b)
             THEN /\ saga' = [saga EXCEPT ![r] = [t EXCEPT !.j = @ + 1]]
                  /\ UNCHANGED running
             ELSE /\ saga' = [saga EXCEPT ![r] = [t EXCEPT !.pc = "rollbackWait"]]
                  /\ running' = 0
  /\ UNCHANGED <<products, carts, orders, orderIdCounter, nreq, late, overridden,
                 nadds, nupdates, workload, replies>>

\* The increase call returns; whatever it returns, the loop moves on.
RollbackReturn(r, outcome) ==
  /\ running = 0
  /\ saga[r].pc = "rollbackWait"
  /\ LET s == saga[r]
         update == RollbackList(s)[s.j]
         p == update.productId
         q == update.quantity
         result == StockAnswer(products, p, q, "increase", outcome)
     IN
     /\ products' = IF result.success
                    THEN StockApplied(products, p, q, "increase") ELSE products
     /\ breaker' = [breaker EXCEPT !["products-service"] =
                      IF result.success THEN RecordSuccess(@) ELSE RecordFailure(@)]
     /\ late' = IF outcome = "failed" THEN late \cup {Late(r, "increase", p, q)} ELSE late
     /\ saga' = [saga EXCEPT ![r] =
          [s EXCEPT !.incApplied[p] = IF result.success THEN @ + q ELSE @,
                    !.j = @ + 1, !.pc = "rollback"]]
     /\ running' = r
  /\ UNCHANGED <<carts, orders, orderIdCounter, nreq, overridden, nadds, nupdates, workload, replies>>

\* The reservations for which a rollback loop has logged "Restored": the
\* line follows the await of restoreProductStock, which throws only when
\* fire() rejects, and with the fallback registered fire() resolves for every
\* outcome; so the line is logged for every turn of the loop that has ended.
LoggedRestored(s) == SubSeq(RollbackList(s), 1, s.j - 1)

\* newOrder.cancellationReason after a failed reservation
ReservationFailureReason(failedProduct) ==
  IF failedProduct # 0
  THEN [text |-> "Insufficient stock for product", product |-> failedProduct]
  ELSE [text |-> "Inventory reservation failed", product |-> 0]

\* Faulty variant: the payment-failure branch writes what the
\* reservation-failure branch writes.
CancelledOrderOneBranch(o, s) ==
  LET reason == ReservationFailureReason(s.failedProduct) IN
  TimelinePush([o EXCEPT !.status = "cancelled", !.paymentStatus = "failed",
                         !.cancellationReason = reason],
               "cancelled", reason.text)

\* The order after the cancellation of either branch.
CancelledOrder(o, s) ==
  IF s.paymentResult = "failed"
  THEN TimelinePush([o EXCEPT !.status = "cancelled", !.paymentStatus = "failed",
                              !.cancellationReason = [text |-> "Payment failed", product |-> 0],
                              !.paymentDetails = "failed"],
                    "cancelled", "Payment failed: error")
  ELSE LET reason == ReservationFailureReason(s.failedProduct) IN
       TimelinePush([o EXCEPT !.status = "cancelled", !.paymentStatus = "failed",
                              !.cancellationReason = reason],
                    "cancelled", reason.text)

\* Faulty variant: the 400 answer carries neither the order nor a reason.
CancelResponseBare(s) == Respond(s, 400, 0, FALSE, FALSE)

\* The 400 answer of either cancellation branch.
CancelResponse(s) ==
  IF s.paymentResult = "failed"
  THEN Respond(s, 400, s.order, FALSE, TRUE)
  ELSE Respond(s, 400, s.order, TRUE, FALSE)

\* Faulty variant: the cancellation branch empties the user's cart as well.
CancelAndClear(r) ==
  /\ running = r
  /\ saga[r].pc = "cancel"
  /\ LET s == saga[r]
         b == breaker["notifications-service"]
         t == [s EXCEPT !.calls = Append(@, Call("order_cancelled", 0, 0, ~Rejects(b)))]
     IN
     /\ orders' = [orders EXCEPT ![s.order] = CancelledOrder(@, s)]
     /\ carts' = [carts EXCEPT ![s.userId] = CartCleared(@)]
     /\ breaker' = [breaker EXCEPT !["notifications-service"] = Fire(b)]
     /\ saga' = [saga EXCEPT ![r] =
          IF Rejects(b) THEN CancelResponse(t) ELSE [t EXCEPT !.pc = "notifyCancelWait"]]
     /\ running' = 0
  /\ UNCHANGED <<products, orderIdCounter, nreq, late, overridden, nadds, nupdates, workload, replies>>

\* After the rollback loop: the order is cancelled and the cancellation
\* notification is sent.
Cancel(r) ==
  /\ running = r
  /\ saga[r].pc = "cancel"
  /\ LET s == saga[r]
         b == breaker["notifications-service"]
         t == [s EXCEPT !.calls = Append(@, Call("order_cancelled", 0, 0, ~Rejects(b)))]
     IN
     /\ orders' = [orders EXCEPT ![s.order] = CancelledOrder(@, s)]
     /\ breaker' = [breaker EXCEPT !["notifications-service"] = Fire(b)]
     /\ saga' = [saga EXCEPT ![r] =
          IF Rejects(b) THEN CancelResponse(t) ELSE [t EXCEPT !.pc = "notifyCancelWait"]]
     /\ running' = 0
  /\ UNCHANGED <<products, carts, orderIdCounter, nreq, late, overridden, nadds, nupdates, workload, replies>>

\* The cancellation notification returns; its result is ignored.
NotifyCancelReturn(r, outcome) ==
  /\ running = 0
  /\ saga[r].pc = "notifyCancelWait"
  /\ breaker' = [breaker EXCEPT !["notifications-service"] =
                   IF outcome = "handled" THEN RecordSuccess(@) ELSE RecordFailure(@)]
  /\ saga' = [saga EXCEPT ![r] = CancelResponse(@)]
  /\ UNCHANGED <<products, carts, orders, orderIdCounter, running, nreq, late,
                 overridden, nadds, nupdates, workload, replies>>

\* --------------------------------------------------- placeOrder: confirm
\* Faulty variant: the payment is recorded but the status is left as it was.
ConfirmedOrderPaymentOnly(o) ==
  TimelinePush([o EXCEPT !.paymentStatus = "completed", !.paymentDetails = "completed"],
               o.status, "Payment successful, order confirmed")

\* Faulty variant: the status is confirmed but the payment is left in processing.
ConfirmedOrderStatusOnly(o) ==
  TimelinePush([o EXCEPT !.status = "confirmed", !.paymentDetails = "completed"],
               "confirmed", "Payment successful, order confirmed")

\* Step 5: the order after a successful payment.
ConfirmedOrder(o) ==
  TimelinePush([o EXCEPT !.status = "confirmed", !.paymentStatus = "completed",
                         !.paymentDetails = "completed"],
               "confirmed", "Payment successful, order confirmed")

\* Steps 5 and 6 up to the await: the order is confirmed, clearUserCart is called.
Confirm(r) ==
  /\ running = r
  /\ saga[r].pc = "confirm"
  /\ LET s == saga[r]
         b == breaker["cart-service"]
         t == [s EXCEPT !.calls = Append(@, Call("clear", 0, 0, ~Rejects(b)))]
     IN
     /\ orders' = [orders EXCEPT ![s.order] = ConfirmedOrder(@)]
     /\ breaker' = [breaker EXCEPT !["cart-service"] = Fire(b)]
     /\ IF Rejects(b)
        THEN /\ saga' = [saga EXCEPT ![r] = [t EXCEPT !.pc = "notify"]]
             /\ UNCHANGED running
        ELSE /\ saga' = [saga EXCEPT ![r] = [t EXCEPT !.pc = "clearWait"]]
             /\ running' = 0
  /\ UNCHANGED <<products, carts, orderIdCounter, nreq, late, overridden, nadds, nupdates, workload, replies>>

\* Faulty variant: a cart-clear call that fails fails the whole request.
ClearReturnEscalates(r, outcome) ==
  /\ running = 0
  /\ saga[r].pc = "clearWait"
  /\ LET u == saga[r].userId IN
     /\ carts' = IF outcome = "handled" THEN [carts EXCEPT ![u] = CartCleared(@)] ELSE carts
     /\ late' = IF outcome = "failed" THEN late \cup {Late(r, "clear", 0, 0)} ELSE late
  /\ breaker' = [breaker EXCEPT !["cart-service"] =
                   IF outcome = "handled" THEN RecordSuccess(@) ELSE RecordFailure(@)]
  /\ IF outcome = "handled"
     THEN saga' = [saga EXCEPT ![r] = [@ EXCEPT !.pc = "notify"]] /\ running' = r
     ELSE saga' = [saga EXCEPT ![r] = Respond(@, 500, 0, FALSE, FALSE)] /\ running' = 0
  /\ UNCHANGED <<products, orders, orderIdCounter, nreq, overridden, nadds, nupdates, workload, replies>>

\* The cart-clear call returns; a failure is logged and nothing else.
ClearReturn(r, outcome) ==
  /\ running = 0
  /\ saga[r].pc = "clearWait"
  /\ LET u == saga[r].userId IN
     /\ carts' = IF outcome = "handled" THEN [carts EXCEPT ![u] = CartCleared(@)] ELSE carts
     /\ late' = IF outcome = "failed" THEN late \cup {Late(r, "clear", 0, 0)} ELSE late
  /\ breaker' = [breaker EXCEPT !["cart-service"] =
                   IF outcome = "handled" THEN RecordSuccess(@) ELSE RecordFailure(@)]
  /\ saga' = [saga EXCEPT ![r] = [@ EXCEPT !.pc = "notify"]]
  /\ running' = r
  /\ UNCHANGED <<products, orders, orderIdCounter, nreq, overridden, nadds, nupdates, workload, replies>>

\* Faulty variant: the confirmation branch sends the cancellation notice.
NotifyWrongType(r) ==
  /\ running = r
  /\ saga[r].pc = "notify"
  /\ LET s == saga[r]
         b == breaker["notifications-service"]
         t == [s EXCEPT !.calls = Append(@, Call("order_cancelled", 0, 0, ~Rejects(b)))]
     IN
     /\ breaker' = [breaker EXCEPT !["notifications-service"] = Fire(b)]
     /\ saga' = [saga EXCEPT ![r] =
          IF Rejects(b) THEN Respond(t, 201, s.order, FALSE, FALSE)
          ELSE [t EXCEPT !.pc = "notifyWait"]]
     /\ running' = 0
  /\ UNCHANGED <<products, carts, orders, orderIdCounter, nreq, late, overridden,
                 nadds, nupdates, workload, replies>>

\* Step 7 up to the await: the confirmation notification is sent.
Notify(r) ==
  /\ running = r
  /\ saga[r].pc = "notify"
  /\ LET s == saga[r]
         b == breaker["notifications-service"]
         t == [s EXCEPT !.calls = Append(@, Call("order_confirmed", 0, 0, ~Rejects(b)))]
     IN
     /\ breaker' = [breaker EXCEPT !["notifications-service"] = Fire(b)]
     /\ saga' = [saga EXCEPT ![r] =
          IF Rejects(b) THEN Respond(t, 201, s.order, FALSE, FALSE)
          ELSE [t EXCEPT !.pc = "notifyWait"]]
     /\ running' = 0
  /\ UNCHANGED <<products, carts, orders, orderIdCounter, nreq, late, overridden,
                 nadds, nupdates, workload, replies>>

\* The confirmation notification returns; 201 with the order.
NotifyReturn(r, outcome) ==
  /\ running = 0
  /\ saga[r].pc = "notifyWait"
  /\ breaker' = [breaker EXCEPT !["notifications-service"] =
                   IF outcome = "handled" THEN RecordSuccess(@) ELSE RecordFailure(@)]
  /\ saga' = [saga EXCEPT ![r] = Respond(@, 201, @.order, FALSE, FALSE)]
  /\ UNCHANGED <<products, carts, orders, orderIdCounter, running, nreq, late,
                 overridden, nadds, nupdates, workload, replies>>

\* ------------------------------------------------ requests without answer
\* A request whose caller got no answer reaches its service and is handled
\* there; nobody reads the answer.
LateHandle(m) ==
  /\ running = 0
  /\ m \in late
  /\ late' = late \ {m}
  /\ IF m.op = "clear"
     THEN /\ carts' = [carts EXCEPT ![saga[m.r].userId] = CartCleared(@)]
          /\ UNCHANGED <<products, saga>>
     ELSE /\ UNCHANGED carts
          /\ IF StockAccepted(products, m.productId, m.quantity, m.op)
             THEN /\ products' = StockApplied(products, m.productId, m.quantity, m.op)
                  /\ saga' = [saga EXCEPT ![m.r] =
                       IF m.op = "decrease"
                       THEN [@ EXCEPT !.decApplied[m.productId] = @ + m.quantity]
                       ELSE [@ EXCEPT !.incApplied[m.productId] = @ + m.quantity]]
             ELSE UNCHANGED <<products, saga>>
  /\ UNCHANGED <<orders, orderIdCounter, breaker, running, nreq, overridden, nadds, nupdates, workload, replies>>

\* ------------------------------------------------- direct status update
OrderIndexOf(ords, id) ==
  IF \E i \in 1..Len(ords) : ords[i].id = id
  THEN CHOOSE i \in 1..Len(ords) : ords[i].id = id
  ELSE 0

\* Faulty variant: an order that is confirmed or cancelled keeps its status.
UpdateStatusGuarded(orderId, status) ==
  /\ running = 0
  /\ nupdates < workload.updates
  /\ nupdates' = nupdates + 1
  /\ LET orderIndex == OrderIndexOf(orders, orderId) IN
     IF status \notin ORDER_STATUS \/ orderIndex = 0
          \/ orders[orderIndex].status \in {"confirmed", "cancelled"}
     THEN UNCHANGED <<orders, overridden>>
     ELSE /\ orders' = [orders EXCEPT ![orderIndex] =
                 TimelinePush([@ EXCEPT !.status = status], status, "Order status updated")]
          /\ overridden' = overridden \cup {orderId}
  /\ UNCHANGED <<products, carts, orderIdCounter, breaker, saga, running, nreq, late, nadds, workload, replies>>

\* PUT /api/orders/:orderId/status; orderId is parseInt(req.params.orderId)
UpdateStatus(orderId, status) ==
  /\ running = 0
  /\ nupdates < workload.updates
  /\ nupdates' = nupdates + 1
  /\ LET orderIndex == OrderIndexOf(orders, orderId) IN
     IF status \notin ORDER_STATUS \/ orderIndex = 0
     THEN UNCHANGED <<orders, overridden>>
     ELSE /\ orders' = [orders EXCEPT ![orderIndex] =
                 TimelinePush([@ EXCEPT !.status = status], status, "Order status updated")]
          /\ overridden' = overridden \cup {orderId}
  /\ UNCHANGED <<products, carts, orderIdCounter, breaker, saga, running, nreq, late, nadds, workload, replies>>

\* ------------------------------------------------------- GET requests
\* The GET routes of the orders service under /api/orders, in the order of
\* their registration; a segment that starts with a colon is a parameter.
GetRoutes ==
  << [path |-> <<"api", "orders", ":userId">>, handler |-> "userOrders"],
     [path |-> <<"api", "orders", "order", ":orderId">>, handler |-> "orderById"],
     [path |-> <<"api", "orders", "stats">>, handler |-> "stats"] >>

RouteParams == {":userId", ":orderId"}

\* Express matches a path against a route segment by segment.
RouteMatches(route, path) ==
  /\ Len(route.path) = Len(path)
  /\ \A i \in 1..Len(path) : route.path[i] \in RouteParams \/ route.path[i] = path[i]

\* Express hands the request to the first registered route that matches.
Dispatch(path) ==
  LET hits == {i \in 1..Len(GetRoutes) : RouteMatches(GetRoutes[i], path)} IN
  IF hits = {} THEN [handler |-> "notFound", param |-> ""]
  ELSE LET i == CHOOSE k \in hits : \A m \in hits : k <= m IN
       [handler |-> GetRoutes[i].handler, param |-> path[Len(path)]]

\* orders.filter(order => order.userId === userId), as a set of ledger positions
OrdersOfUser(ords, userId) == {i \in 1..Len(ords) : ords[i].userId = userId}

\* the sum of totalAmount over the ledger positions in S
RECURSIVE Revenue(_, _)
Revenue(ords, S) ==
  IF S = {} THEN 0
  ELSE LET i == CHOOSE k \in S : TRUE IN ords[i].totalAmount + Revenue(ords, S \ {i})

\* GET /api/orders/:userId without status, page or limit: the ids of the
\* user's orders (fewer than one page) and their number.
UserOrders(ords, userId) ==
  [orders |-> {ords[i].id : i \in OrdersOfUser(ords, userId)},
   totalOrders |-> Cardinality(OrdersOfUser(ords, userId))]

\* GET /api/orders/stats: the handler's statistics, over the whole ledger
\* when no userId is given.  averageOrderValue is the quotient
\* totalRevenue / confirmedOrders.length, kept as the pair of the two.
OrderStats(ords, userId) ==
  LET filtered == IF userId # "" THEN OrdersOfUser(ords, userId) ELSE 1..Len(ords)
      confirmed == {i \in filtered : ords[i].status = "confirmed"}
  IN
  [totalOrders |-> Cardinality(filtered),
   ordersByStatus |-> [st \in ORDER_STATUS |->
                        Cardinality({i \in filtered : ords[i].status = st})],
   totalRevenue |-> Revenue(ords, confirmed),
   averageOrderValue |-> IF Cardinality(confirmed) > 0
                         THEN <<Revenue(ords, confirmed), Cardinality(confirmed)>>
                         ELSE <<0, 1>>]

\* A GET request with the given path and the given userId in its query
\* ("" when it has none) is served.
Get(path, userId) ==
  /\ running = 0
  /\ Len(replies) < workload.reads
  /\ LET route == Dispatch(path)
         data == IF route.handler = "stats" THEN OrderStats(orders, userId)
                 ELSE IF route.handler = "userOrders" THEN UserOrders(orders, route.param)
                 ELSE [orders |-> {}, totalOrders |-> 0]
     IN replies' = Append(replies, [path |-> path, userId |-> userId,
                                    handler |-> route.handler, data |-> data])
  /\ UNCHANGED <<products, carts, orders, orderIdCounter, breaker, saga, running, nreq,
                 late, overridden, nadds, nupdates, workload>>

\* Faulty variant: the reset timer turns the breaker half-open without
\* arming the trial call.
HalfOpenNoTrial(n) ==
  /\ running = 0
  /\ breaker[n].state = "open"
  /\ breaker' = [breaker EXCEPT ![n] =
       [@ EXCEPT !.state = "halfOpen", !.pendingClose = FALSE, !.fires = 0, !.failures = 0,
                 !.successes = 0]]
  /\ UNCHANGED <<products, carts, orders, orderIdCounter, saga, running, nreq, late,
                 overridden, nadds, nupdates, workload, replies>>

\* ------------------------------------------------------ breaker timers
\* resetTimeout elapsed: an open breaker turns half-open.  The cooldown
\* (30 s) is longer than the call timeout (5 s) plus the rolling window
\* (10 s), so every outcome recorded before the breaker opened, or for a call
\* started before it opened, has rotated out by then.  (Calls rejected in the
\* last ten seconds of the cooldown would still count as fired; they are left
\* out.)
HalfOpen(n) ==
  /\ running = 0
  /\ breaker[n].state = "open"
  /\ breaker' = [breaker EXCEPT ![n] =
       [@ EXCEPT !.state = "halfOpen", !.pendingClose = TRUE, !.fires = 0, !.failures = 0,
                 !.successes = 0]]
  /\ UNCHANGED <<products, carts, orders, orderIdCounter, saga, running, nreq, late,
                 overridden, nadds, nupdates, workload, replies>>

\* rollingCountTimeout elapsed while the service was idle: every call was
\* recorded longer ago than the rolling window is wide, so all windows are
\* empty again.
RotateWindows ==
  /\ running = 0
  /\ \A r \in Requests : saga[r].pc \in {"idle", "done"}
  /\ \E n \in BreakerNames : breaker[n].fires > 0
  /\ breaker' = [n \in BreakerNames |->
                  [breaker[n] EXCEPT !.fires = 0, !.failures = 0, !.successes = 0]]
  /\ UNCHANGED <<products, carts, orders, orderIdCounter, saga, running, nreq, late,
                 overridden, nadds, nupdates, workload, replies>>

\* ------------------------------------------------------- initial states
\* The services right after they were started.
ColdStart ==
  /\ products = [p \in Products |-> [stock |-> InitStock[p], available |-> InitStock[p] > 0]]
  /\ carts \in [Users -> workload.carts \cup {BystanderCart}]
  /\ \A u \in Users :
       IF u \in workload.users THEN carts[u] \in workload.carts ELSE carts[u] = BystanderCart
  /\ orders = <<>>
  /\ orderIdCounter = InitOrderIdCounter
  /\ breaker = [n \in BreakerNames |-> NewBreaker]
  /\ saga = [r \in Requests |-> NewSaga]
  /\ running = 0
  /\ nreq = 0
  /\ late = {}
  /\ overridden = {}
  /\ nadds = 0
  /\ nupdates = 0

\* The services after one earlier order, started cold on the two-item cart:
\* item 1 was reserved, the call for item 2 and the compensation of item 1
\* were not answered in time, the order was cancelled and the notification
\* sent; of the two unanswered requests the increase has reached the
\* products service since, the decrease has not.

EarlierSaga ==
  LET s0 == [NewSaga EXCEPT !.userId = "u1", !.authToken = TRUE, !.fields = TRUE,
                            !.validation = "passed", !.cart = CartValidated(EarlierCart),
                            !.order = 1,
                            !.calls = << Call("validate", 0, 0, TRUE), Call("decrease", 3, 1, TRUE),
                                         Call("decrease", 8, 1, TRUE), Call("increase", 3, 1, TRUE),
                                         Call("order_cancelled", 0, 0, TRUE) >>,
                            !.decApplied = [p \in Products |-> IF p = 3 THEN 1 ELSE 0],
                            !.incApplied = [p \in Products |-> IF p = 3 THEN 1 ELSE 0]]
      s1 == AfterDecrease(s0, [success |-> TRUE, fallback |-> FALSE], "none")
      s2 == AfterDecrease(s1, Fallback, FailKind("failed"))
  IN [s2 EXCEPT !.j = 2]

AfterEarlierOrder ==
  /\ products = [p \in Products |-> [stock |-> InitStock[p], available |-> InitStock[p] > 0]]
  /\ carts = [u \in Users |->
                IF u \in workload.users THEN CartValidated(EarlierCart) ELSE BystanderCart]
  /\ orders = << CancelledOrder(NewOrder(InitOrderIdCounter + 1, "u1", CartValidated(EarlierCart)),
                                EarlierSaga) >>
  /\ orderIdCounter = InitOrderIdCounter + 1
  /\ breaker = [n \in BreakerNames |->
                 IF n = "products-service"
                 THEN [NewBreaker EXCEPT !.fires = 3, !.failures = 2, !.successes = 1]
                 ELSE [NewBreaker EXCEPT !.fires = 1, !.successes = 1]]
  /\ saga = [r \in Requests |-> IF r = 1 THEN CancelResponse(EarlierSaga) ELSE NewSaga]
  /\ running = 0
  /\ nreq = 1
  /\ late = {Late(1, "decrease", 8, 1)}
  /\ overridden = {}
  /\ nadds = 0
  /\ nupdates = 0

Init ==
  /\ workload \in Workloads
  /\ replies = <<>>
  /\ IF workload.earlier = 0 THEN ColdStart ELSE AfterEarlierOrder

StatusInputs == ORDER_STATUS \cup {"", "unknown"}
StatsPath == <<"api", "orders", "stats">>
GetPaths == {StatsPath, <<"api", "orders", "u1">>}
OrderIdInputs == (InitOrderIdCounter + 1)..(InitOrderIdCounter + MaxRequests)

Next ==
  \/ \E u \in Users, p \in Products, q \in 1..MaxQty : AddToCart(u, p, q)
  \/ \E u \in Users, hasToken \in BOOLEAN, hasFields \in BOOLEAN : PlaceOrder(u, hasToken, hasFields)
  \/ \E r \in Requests, outcome \in Outcomes, ok \in BOOLEAN : ValidateReturn(r, outcome, ok)
  \/ \E r \in Requests : Reserve(r)
  \/ \E r \in Requests, outcome \in Outcomes : ReserveReturn(r, outcome)
  \/ \E r \in Requests : Process(r)
  \/ \E r \in Requests, isSuccessful \in BOOLEAN : PaymentReturn(r, isSuccessful)
  \/ \E r \in Requests : Rollback(r)
  \/ \E r \in Requests, outcome \in Outcomes : RollbackReturn(r, outcome)
  \/ \E r \in Requests : Cancel(r)
  \/ \E r \in Requests, outcome \in Outcomes : NotifyCancelReturn(r, outcome)
  \/ \E r \in Requests : Confirm(r)
  \/ \E r \in Requests, outcome \in Outcomes : ClearReturn(r, outcome)
  \/ \E r \in Requests : Notify(r)
  \/ \E r \in Requests, outcome \in Outcomes : NotifyReturn(r, outcome)
  \/ \E m \in late : LateHandle(m)
  \/ \E id \in OrderIdInputs, status \in StatusInputs : UpdateStatus(id, status)
  \/ \E path \in GetPaths, userId \in {"", "u1"} : Get(path, userId)
  \/ \E n \in BreakerNames : HalfOpen(n)
  \/ RotateWindows
  \/ \E p \in Products, available \in BOOLEAN : UpdateProduct(p, available)

Spec == Init /\ [][Next]_vars

\* ------------------------------------------------------------- progress
\* The steps of invocation r after its arrival.  The event loop runs a
\* continuation as soon as its promise is settled, and every awaited promise
\* is settled: a breaker call by the answer, the transport error or the
\* breaker timeout (5000 ms), processPayment by its own timer.
SagaStep(r) ==
  \/ \E outcome \in Outcomes, ok \in BOOLEAN : ValidateReturn(r, outcome, ok)
  \/ Reserve(r)
  \/ \E outcome \in Outcomes : ReserveReturn(r, outcome)
  \/ Process(r)
  \/ \E isSuccessful \in BOOLEAN : PaymentReturn(r, isSuccessful)
  \/ Rollback(r)
  \/ \E outcome \in Outcomes : RollbackReturn(r, outcome)
  \/ Cancel(r)
  \/ \E outcome \in Outcomes : NotifyCancelReturn(r, outcome)
  \/ Confirm(r)
  \/ \E outcome \in Outcomes : ClearReturn(r, outcome)
  \/ Notify(r)
  \/ \E outcome \in Outcomes : NotifyReturn(r, outcome)

\* The cold-started workloads of at most RaceRequests orders, with the
\* scheduling the event loop guarantees.
LiveInit == Init /\ workload.earlier = 0 /\ workload.requests <= RaceRequests

LiveSpec ==
  LiveInit /\ [][Next]_vars /\ \A r \in 1..RaceRequests : WF_vars(SagaStep(r))

\* The cold-started workloads of one order and at most SoloUpdates status
\* updates, and the workload of a client that retries, with the scheduling of the event loop and the reset timers: a timer set
\* when a breaker opens (resetTimeout, 30000 ms) fires, and its callback
\* runs as soon as the event loop is free.
CooldownInit ==
  Init /\ (\/ workload.sequential
           \/ /\ workload.earlier = 0
              /\ workload.requests <= SoloRequests
              /\ workload.updates <= SoloUpdates)

CooldownSpec ==
  /\ CooldownInit /\ [][Next]_vars
  /\ \A r \in Requests : WF_vars(SagaStep(r))
  /\ \A n \in BreakerNames : WF_vars(HalfOpen(n))

\* =================================================================
\* Properties
\* =================================================================
\* The state after the earlier order is a state a cold-started run reaches.
EarlierOrderReached == workload.earlier = 0 /\ AfterEarlierOrder

Created(r) == saga[r].order # 0
OrderOf(r) == orders[saga[r].order]
Done(r) == saga[r].pc = "done"
Terminal == {"confirmed", "cancelled"}

\* the calls of one kind an invocation has made, in the order it made them
CallsOf(r, op) == SelectSeq(saga[r].calls, LAMBDA c : c.op = op)

\* the quantity of product p in a sequence of items, reservations or calls
QuantityOf(items, p) ==
  SumSeq(Map(items, LAMBDA it : IF it.productId = p THEN it.quantity ELSE 0))

\* the timeline entries written by the saga when it cancels or confirms
SagaTerminalEntry(e) == e.status \in Terminal /\ e.message # "Order status updated"

\* the saga has written a terminal status, and whatever was written to the
\* order since then was written by direct status updates
TerminalWritten(o) ==
  \E i \in 1..Len(o.timeline) :
    /\ SagaTerminalEntry(o.timeline[i])
    /\ \A k \in (i + 1)..Len(o.timeline) : o.timeline[k].message = "Order status updated"

\* C1 as stated: when placeOrder answers for an order it created, the order's
\* status is confirmed or cancelled.
C1_TerminalAtResponse ==
  [][\A r \in Requests :
       (~Done(r) /\ saga'[r].pc = "done" /\ saga'[r].order # 0)
         => orders'[saga'[r].order].status \in Terminal]_vars

\* C1 amended: once placeOrder has answered for an order it created, the saga
\* has written confirmed or cancelled (and completed or failed as payment
\* status), and the order's status is terminal unless a direct status update
\* has overwritten it since that write.
C1_TerminalWritten ==
  \A r \in Requests :
    (Done(r) /\ Created(r)) =>
      /\ TerminalWritten(OrderOf(r))
      /\ OrderOf(r).paymentStatus \in {"completed", "failed"}
      /\ (OrderOf(r).id \notin overridden => OrderOf(r).status \in Terminal)

C1_Witness ==
  \E r \in Requests :
    /\ Done(r) /\ Created(r)
    /\ OrderOf(r).id \in overridden
    /\ OrderOf(r).status \notin Terminal
    /\ OrderOf(r).paymentStatus = "failed"

\* C2: every status write of placeOrder is pending -> processing,
\* processing -> confirmed, pending -> cancelled or processing -> cancelled.
SagaTransitions ==
  {<<"pending", "processing">>, <<"processing", "confirmed">>,
   <<"pending", "cancelled">>, <<"processing", "cancelled">>}

C2_SagaTransitions ==
  [][\A r \in Requests :
       (Process(r) \/ Cancel(r) \/ Confirm(r))
         => <<orders[saga[r].order].status, orders'[saga[r].order].status>>
              \in SagaTransitions]_vars

\* every increase call the invocation made was applied by the products service
AllIncreasesApplied(r) ==
  \A p \in Products : saga[r].incApplied[p] = QuantityOf(CallsOf(r, "increase"), p)

\* C3: for an order its saga cancelled, once every increase call attempted
\* for it has been applied, the stock taken for the order equals the stock
\* given back, for every product.
C3_NetZeroWhenCancelled ==
  \A r \in Requests :
    (Done(r) /\ Created(r) /\ saga[r].response.code = 400 /\ AllIncreasesApplied(r))
      => \A p \in Products : saga[r].decApplied[p] = saga[r].incApplied[p]

\* C4 as stated: for every order whose status is confirmed, the quantities
\* decremented for it add up to the quantities of its items.
C4_ConfirmedDecrements ==
  \A r \in Requests :
    (Created(r) /\ OrderOf(r).status = "confirmed") =>
      SumSeq([i \in 1..Len(OrderOf(r).items) |->
                saga[r].decApplied[OrderOf(r).items[i].productId]])
        = SumSeq(Map(OrderOf(r).items, LAMBDA it : it.quantity))

\* C4 amended: for every order its saga confirmed (payment completed), every
\* item was decremented exactly once by its quantity and nothing was
\* restored, so the decrements add up to the quantities of the items.
C4_SagaConfirmedDecrements ==
  \A r \in Requests :
    (Created(r) /\ OrderOf(r).paymentStatus = "completed") =>
      /\ \A p \in Products :
           /\ saga[r].decApplied[p] = QuantityOf(OrderOf(r).items, p)
           /\ saga[r].incApplied[p] = 0
      /\ SumSeq([i \in 1..Len(OrderOf(r).items) |->
                   saga[r].decApplied[OrderOf(r).items[i].productId]])
           = SumSeq(Map(OrderOf(r).items, LAMBDA it : it.quantity))
      /\ CallsOf(r, "increase") = <<>>

C4_Witness ==
  \E r \in Requests :
    /\ Created(r) /\ OrderOf(r).paymentStatus = "completed"
    /\ OrderOf(r).status = "confirmed"
    /\ Len(OrderOf(r).items) = 3
    /\ saga[r].decApplied[10] = 2

\* the first n items of the cart an invocation works on, as (product, quantity)
ItemPairs(items, n) == [i \in 1..n |-> <<items[i].productId, items[i].quantity>>]
CallPairs(calls) == [i \in 1..Len(calls) |-> <<calls[i].productId, calls[i].quantity>>]

AfterRollback == {"cancel", "notifyCancelWait", "done"}

\* C5: when the reservation fails at item k, increase calls are issued for
\* exactly the items 1..k-1, once each, with the reserved quantity, in the order
\* they were reserved, and for no other item.
C5_RollbackExact ==
  \A r \in Requests :
    saga[r].inventoryReservationFailed =>
      LET k == saga[r].idx
          incs == CallPairs(CallsOf(r, "increase"))
      IN
      /\ Len(incs) <= k - 1
      /\ incs = ItemPairs(saga[r].cart.items, Len(incs))
      /\ (saga[r].pc \in AfterRollback => Len(incs) = k - 1)

C5_Witness ==
  \E r \in Requests :
    /\ saga[r].inventoryReservationFailed
    /\ saga[r].idx = 3
    /\ Done(r)
    /\ Len(CallsOf(r, "increase")) = 2

\* C6: decrease calls are issued one at a time in cart order, each only after
\* the previous one returned success; after the first failed decrease no
\* further decrease is issued, and no item is decreased more than once.
C6_SequentialReservation ==
  \A r \in Requests :
    LET decs == CallPairs(CallsOf(r, "decrease"))
        reserved == Len(saga[r].stockUpdates)
    IN
    /\ Len(decs) <= Len(saga[r].cart.items)
    /\ decs = ItemPairs(saga[r].cart.items, Len(decs))
    /\ Len(decs) \in {reserved, reserved + 1}
    /\ (saga[r].pc = "reserveWait" => Len(decs) = reserved + 1)
    /\ (saga[r].inventoryReservationFailed => Len(decs) = reserved + 1 /\ saga[r].idx = Len(decs))
    /\ \A i, k \in 1..Len(decs) : i # k => decs[i][1] # decs[k][1]
    /\ \A p \in Products : saga[r].decApplied[p] <= QuantityOf(saga[r].cart.items, p)

C6_Witness ==
  \E r \in Requests :
    /\ workload.earlier = 0
    /\ Done(r)
    /\ saga[r].inventoryReservationFailed
    /\ Len(saga[r].cart.items) = 3
    /\ Len(CallsOf(r, "decrease")) = 2
    /\ Len(saga[r].stockUpdates) = 1
    /\ saga[r].decApplied[10] = 0

\* C7 as stated: all items reserved and payment declined: an increase is
\* issued for every reserved item, the order ends cancelled / failed with the
\* payment-failure reason, and every reserved item is back at its
\* pre-reservation stock.
C7_PaymentDeclinedRestored ==
  \A r \in Requests :
    (Done(r) /\ saga[r].paymentResult = "failed") =>
      /\ CallPairs(CallsOf(r, "increase"))
           = ItemPairs(saga[r].cart.items, Len(saga[r].cart.items))
      /\ OrderOf(r).paymentStatus = "failed"
      /\ OrderOf(r).cancellationReason.text = "Payment failed"
      /\ TerminalWritten(OrderOf(r))
      /\ \A p \in Products : saga[r].incApplied[p] = saga[r].decApplied[p]

\* C7 amended: all items reserved and payment declined: an increase is issued
\* for every reserved item, in order; the saga writes cancelled / failed with
\* reason "Payment failed" and the payment details; an item is restored when
\* the products service applied its increase, so the net stock delta of the
\* order is zero once every increase call has been applied.
C7_PaymentDeclinedCompensated ==
  \A r \in Requests :
    (saga[r].paymentResult = "failed" /\ saga[r].pc \in {"notifyCancelWait", "done"}) =>
      /\ Len(saga[r].stockUpdates) = Len(saga[r].cart.items)
      /\ CallPairs(CallsOf(r, "increase"))
           = ItemPairs(saga[r].cart.items, Len(saga[r].cart.items))
      /\ OrderOf(r).paymentStatus = "failed"
      /\ OrderOf(r).cancellationReason.text = "Payment failed"
      /\ OrderOf(r).paymentDetails = "failed"
      /\ TerminalWritten(OrderOf(r))
      /\ (OrderOf(r).id \notin overridden => OrderOf(r).status = "cancelled")
      /\ \A p \in Products :
           /\ saga[r].decApplied[p] = QuantityOf(saga[r].cart.items, p)
           /\ saga[r].incApplied[p] <= saga[r].decApplied[p]
      /\ (AllIncreasesApplied(r) =>
            \A p \in Products : saga[r].incApplied[p] = saga[r].decApplied[p])

C7_Witness ==
  \E r \in Requests :
    /\ Done(r) /\ saga[r].paymentResult = "failed"
    /\ Len(saga[r].cart.items) = 3
    /\ AllIncreasesApplied(r)
    /\ products[10].stock = InitStock[10]

\* C8: no order is created and no stock, payment, cart-clear or notification
\* call is issued when the credential or a required field is missing, or the
\* cart validation reports an empty cart or unavailable items, fails, or is
\* short-circuited by the cart breaker; the ledger holds exactly the orders of
\* the invocations that passed validation.
C8_NoOrderNoCalls ==
  /\ \A r \in Requests :
       (saga[r].pc # "idle"
          /\ (~saga[r].authToken \/ ~saga[r].fields
                \/ saga[r].validation \in {"rejected", "failed", "empty", "unchecked", "unavailable"}))
         => /\ Done(r)
            /\ ~Created(r)
            /\ saga[r].response.code = (IF saga[r].authToken THEN 400 ELSE 401)
            /\ saga[r].response.order = 0
            /\ \A i \in 1..Len(saga[r].calls) : saga[r].calls[i].op = "validate"
            /\ (~(saga[r].authToken /\ saga[r].fields) => saga[r].calls = <<>>)
  /\ Len(orders) = Cardinality({r \in Requests : saga[r].validation = "passed"})
  /\ \A r \in Requests : Created(r) <=> saga[r].validation = "passed"

C8_Witness ==
  /\ \E r \in Requests : Done(r) /\ saga[r].validation = "rejected"
  /\ \E r \in Requests : Done(r) /\ saga[r].validation = "empty"
  /\ orders = <<>>

C8_WitnessUnavailable ==
  \E r \in Requests : Done(r) /\ saga[r].validation = "unavailable" /\ Len(orders) = 1

\* C9: a reservation call short-circuited by the open products breaker is
\* told apart from a failure reported by the products service: it is never
\* reported as insufficient stock.
C9_ShortCircuitToldApart ==
  \A r \in Requests :
    (Created(r) /\ saga[r].pc \in {"notifyCancelWait", "done"}
       /\ saga[r].inventoryReservationFailed /\ saga[r].failKind = "rejected")
      => OrderOf(r).cancellationReason.text # "Insufficient stock for product"

\* every increase call that was let through to the products service was applied
AllSentIncreasesApplied(r) ==
  \A p \in Products :
    saga[r].incApplied[p]
      = QuantityOf(SelectSeq(saga[r].calls, LAMBDA c : c.op = "increase" /\ c.sent), p)

\* C10: the products breaker is open when the reservation call for item k is
\* issued: the service is not contacted for item k, the order ends cancelled /
\* failed, and no item reserved earlier in the saga remains decremented
\* (checked for the runs in which every increase call that reached the
\* service was applied).
C10_OpenBreakerCompensated ==
  \A r \in Requests :
    (Done(r) /\ Created(r) /\ saga[r].failKind = "rejected" /\ AllSentIncreasesApplied(r)) =>
      /\ ~CallsOf(r, "decrease")[saga[r].idx].sent
      /\ saga[r].decApplied[saga[r].failedProduct] = 0
      /\ OrderOf(r).paymentStatus = "failed"
      /\ TerminalWritten(OrderOf(r))
      /\ \A p \in Products : saga[r].decApplied[p] = saga[r].incApplied[p]
\* ----------------------------------------------------------------- C11
\* the call an invocation makes in this step, if it makes one
MakesCall(r) == Len(saga'[r].calls) = Len(saga[r].calls) + 1
NewCall(r) == saga'[r].calls[Len(saga'[r].calls)]

\* C11: a call made through a breaker whose state is open does not reach the
\* dependency: no request is sent, nothing is in flight afterwards, the
\* dependency's data is untouched, and the caller carries on at once with the
\* fallback (a failed validation or reservation, a skipped compensation,
\* clear or notification).
C11_OpenRejectsEveryCall ==
  [][\A r \in Requests :
       (MakesCall(r) /\ BreakerOf(NewCall(r).op) # "none"
          /\ breaker[BreakerOf(NewCall(r).op)].state = "open")
         => /\ ~NewCall(r).sent
            /\ saga'[r].pc \notin Waiting
            /\ products' = products /\ carts' = carts /\ late' = late
            /\ breaker'[BreakerOf(NewCall(r).op)].state = "open"
            /\ breaker'[BreakerOf(NewCall(r).op)].failures
                 = breaker[BreakerOf(NewCall(r).op)].failures
            /\ (NewCall(r).op = "decrease" => saga'[r].inventoryReservationFailed)
            /\ (NewCall(r).op = "validate" => saga'[r].response.code = 400)]_vars

C11_Witness ==
  /\ breaker["products-service"].state = "open"
  /\ \E r \in Requests :
       /\ Len(CallsOf(r, "decrease")) >= 2
       /\ \E i \in 1..Len(saga[r].calls) :
            saga[r].calls[i].op = "increase" /\ ~saga[r].calls[i].sent
\* ----------------------------------------------------------------- C12
\* an outcome is recorded on breaker n in this step
FailureRecorded(n) == breaker'[n].failures = breaker[n].failures + 1
SuccessRecorded(n) == breaker'[n].successes = breaker[n].successes + 1

CallsThrough(r, n) == MakesCall(r) /\ BreakerOf(NewCall(r).op) = n

\* C13: an open breaker leaves the open state only when its reset timer
\* fires, and then to half-open with the trial pending and without a call
\* being made in that step; the first call made on the half-open breaker is
\* let through and takes the trial; calls made while the trial is under way
\* are rejected and leave the breaker as it is.
C13_SingleTrialAfterCooldown ==
  [][\A n \in BreakerNames :
       /\ (breaker[n].state = "open" /\ breaker'[n].state # "open")
            => /\ breaker'[n].state = "halfOpen" /\ breaker'[n].pendingClose
               /\ saga' = saga /\ products' = products /\ carts' = carts
       /\ \A r \in Requests :
            (CallsThrough(r, n) /\ breaker[n].state = "halfOpen")
              => IF breaker[n].pendingClose
                 THEN /\ NewCall(r).sent
                      /\ breaker'[n].state = "halfOpen" /\ ~breaker'[n].pendingClose
                 ELSE /\ ~NewCall(r).sent
                      /\ breaker'[n].state = "halfOpen" /\ ~breaker'[n].pendingClose
                      /\ saga'[r].pc \notin Waiting]_vars

\* the cart breaker is half-open, its trial is under way and the next call
\* was rejected
C13_Witness ==
  /\ breaker["cart-service"].state = "halfOpen"
  /\ ~breaker["cart-service"].pendingClose
  /\ breaker["cart-service"].fires = 2
  /\ \E r \in Requests :
       /\ r + 1 \in Requests
       /\ saga[r].pc = "validateWait"
       /\ \A q \in 1..(r - 1) : Done(q)
       /\ saga[r + 1].validation = "rejected"
C15_EveryRequestAnswered ==
  \A r \in 1..RaceRequests : (saga[r].pc # "idle") ~> Done(r)

\* an order was answered although calls of its saga got no answer in time
C15_Witness ==
  \E r \in Requests :
    /\ Done(r) /\ Created(r)
    /\ saga[r].failKind = "failed"
    /\ saga[r].response.code = 400
    /\ \E m \in late : m.r = r /\ m.op = "increase"
\* ----------------------------------------------------------------- C16
\* C16 as stated: whatever the cart-clear call and the notification calls
\* come to, an order whose payment succeeded is answered 201 and is
\* confirmed / completed, and an order that was cancelled is answered 400 and
\* is cancelled / failed.
C16_ResultIgnoresClearAndNotify ==
  \A r \in Requests :
    (Done(r) /\ Created(r)) =>
      IF saga[r].paymentResult = "completed"
      THEN /\ saga[r].response.code = 201
           /\ OrderOf(r).status = "confirmed" /\ OrderOf(r).paymentStatus = "completed"
      ELSE /\ saga[r].response.code = 400
           /\ OrderOf(r).status = "cancelled" /\ OrderOf(r).paymentStatus = "failed"

\* C16 amended: the same for the answer, the payment status and the status
\* the saga wrote; the status itself is confirmed (cancelled) unless a direct
\* status update has overwritten it.
C16_SagaResultIgnoresClearAndNotify ==
  \A r \in Requests :
    (Done(r) /\ Created(r)) =>
      LET o == OrderOf(r)
          written == "cancelled" \in {o.timeline[i].status :
                        i \in {k \in 1..Len(o.timeline) : SagaTerminalEntry(o.timeline[k])}}
      IN
      IF saga[r].paymentResult = "completed"
      THEN /\ saga[r].response.code = 201 /\ saga[r].response.order = saga[r].order
           /\ o.paymentStatus = "completed" /\ o.paymentDetails = "completed"
           /\ ~written /\ TerminalWritten(o)
           /\ (o.id \notin overridden => o.status = "confirmed")
      ELSE /\ saga[r].response.code = 400 /\ saga[r].response.order = saga[r].order
           /\ o.paymentStatus = "failed"
           /\ written /\ TerminalWritten(o)
           /\ (o.id \notin overridden => o.status = "cancelled")

\* answered 201 although the cart-clear call got no answer and a
\* notification failed
C16_Witness ==
  \E r \in Requests :
    /\ Done(r) /\ saga[r].response.code = 201
    /\ Late(r, "clear", 0, 0) \in late
    /\ breaker["notifications-service"].failures >= 1
    /\ Len(carts[saga[r].userId].items) > 0
    /\ OrderOf(r).status = "confirmed"

\* ----------------------------------------------------------------- C17
\* the timeline of o2 is the timeline of o, or that with entries added
\* at the end
Extends(o, o2) ==
  /\ Len(o2.timeline) >= Len(o.timeline)
  /\ SubSeq(o2.timeline, 1, Len(o.timeline)) = o.timeline

\* a change of status comes with exactly one new entry, which carries the
\* new status
TransitionLogged(o, o2) ==
  o2.status # o.status =>
    /\ Len(o2.timeline) = Len(o.timeline) + 1
    /\ o2.timeline[Len(o2.timeline)].status = o2.status

\* a new entry comes with a change of status
EntryIsTransition(o, o2) ==
  o2.timeline # o.timeline => o2.status # o.status

\* the last entry carries the order's status
LastEntryCurrent(o) ==
  o.timeline # <<>> /\ o.timeline[Len(o.timeline)].status = o.status

\* C17: no order leaves the ledger; in every step every order's timeline is
\* extended at the end only, a change of status appends exactly one entry
\* with the new status, nothing is appended without a change of status, and
\* in every state the last entry of every order carries the order's status.
C17_TimelineMirrorsTransitions ==
  /\ [](\A i \in 1..Len(orders) : LastEntryCurrent(orders[i]))
  /\ [][/\ Len(orders') >= Len(orders)
        /\ \A i \in 1..Len(orders) :
             /\ Extends(orders[i], orders'[i])
             /\ TransitionLogged(orders[i], orders'[i])
             /\ EntryIsTransition(orders[i], orders'[i])]_vars

\* ----------------------------------------------------------------- C18
PaymentPath ==
  {<<"pending", "processing">>, <<"processing", "completed">>,
   <<"processing", "failed">>}

\* C18 as stated: the payment status of an order changes only from pending
\* to processing and from processing to completed or failed.
C18_PaymentStatusPath ==
  [][\A i \in 1..Len(orders) :
       orders'[i].paymentStatus # orders[i].paymentStatus
         => <<orders[i].paymentStatus, orders'[i].paymentStatus>> \in PaymentPath]_vars

\* C18 amended: as stated, and also from pending to failed, which happens
\* only when the saga cancels the order without a payment attempt; the
\* payment status becomes failed from processing only after a declined
\* payment, and completed and failed are final.
C18_PaymentStatusPathOrUnpaid ==
  [][\A i \in 1..Len(orders) :
       LET before == orders[i].paymentStatus
           after == orders'[i].paymentStatus
       IN
       before # after =>
         \/ <<before, after>> \in PaymentPath
              /\ (after = "failed" =>
                    \E r \in Requests :
                      Cancel(r) /\ saga[r].order = i /\ saga[r].paymentResult = "failed")
         \/ /\ <<before, after>> = <<"pending", "failed">>
            /\ \E r \in Requests :
                 Cancel(r) /\ saga[r].order = i /\ saga[r].paymentResult = "none"]_vars

\* one order failed without a payment attempt, another was paid
C18_Witness ==
  \E r, t \in Requests :
    /\ workload.earlier = 0
    /\ Created(r) /\ saga[r].paymentResult = "none"
    /\ OrderOf(r).paymentStatus = "failed"
    /\ Created(t) /\ OrderOf(t).paymentStatus = "completed"

\* ----------------------------------------------------------------- C19
\* an entry written by the direct status update
Override(e) == e.message = "Order status updated"

\* C19: a direct status update that names an order of the ledger and one
\* of the six statuses sets that status and appends its entry whatever the
\* status was, and leaves the other orders alone; with any other status or
\* an id that no order has, every order keeps its status and its timeline.
C19_UpdateStatusUnguarded ==
  [][\A id \in OrderIdInputs, status \in StatusInputs :
       UpdateStatus(id, status) =>
         /\ Len(orders') = Len(orders)
         /\ \A i \in 1..Len(orders) :
              IF status \in ORDER_STATUS /\ orders[i].id = id
              THEN /\ orders'[i].status = status
                   /\ orders'[i].timeline =
                        Append(orders[i].timeline,
                               [status |-> status, message |-> "Order status updated"])
              ELSE /\ orders'[i].status = orders[i].status
                   /\ orders'[i].timeline = orders[i].timeline]_vars

\* a confirmed order was set to shipped and from there back to pending
C19_Witness ==
  \E i \in 1..Len(orders) :
    LET tl == orders[i].timeline IN
    /\ orders[i].status = "pending"
    /\ \E k \in 1..(Len(tl) - 2) :
         /\ tl[k].status = "confirmed" /\ ~Override(tl[k])
         /\ tl[k + 1].status = "shipped" /\ Override(tl[k + 1])
         /\ tl[k + 2].status = "pending" /\ Override(tl[k + 2])

\* ----------------------------------------------------------------- C20
\* the invocation that created order i has called processPayment
PaymentAttempted(i) ==
  \E r \in Requests : saga[r].order = i /\ CallsOf(r, "payment") # <<>>

ReasonOnlyWhenCancelled(o) == o.cancellationReason # NoReason => o.status = "cancelled"

\* C20: in every state an order with a cancellation reason is cancelled and
\* an order with payment details has had a payment attempt.
C20_ReasonAndDetailsPresence ==
  \A i \in 1..Len(orders) :
    /\ ReasonOnlyWhenCancelled(orders[i])
    /\ orders[i].paymentDetails # "none" => PaymentAttempted(i)

\* ----------------------------------------------------------------- C21
\* C21: the ledger holds the orders in the order of their creation, and an
\* order created later has a strictly greater id than every order created
\* before it, so no two orders share an id; no id is ahead of the counter.
C21_OrderIdsIncrease ==
  /\ \A i, j \in 1..Len(orders) : i < j => orders[i].id < orders[j].id
  /\ \A i \in 1..Len(orders) : orders[i].id <= orderIdCounter

\* two invocations of a cold start have each created an order and neither
\* has answered yet
C21_Witness ==
  /\ workload.earlier = 0
  /\ \E r, t \in Requests :
       /\ r # t /\ Created(r) /\ Created(t) /\ ~Done(r) /\ ~Done(t)
       /\ OrderOf(r).id # OrderOf(t).id

\* ----------------------------------------------------------------- C22
\* C22: for every order of the ledger, every item's subtotal is its price
\* times its quantity, totalItems is the sum of the quantities and
\* totalAmount is the sum of the subtotals.
C22_TotalsAreSums ==
  \A i \in 1..Len(orders) :
    LET o == orders[i] IN
    /\ \A k \in 1..Len(o.items) : o.items[k].subtotal = o.items[k].price * o.items[k].quantity
    /\ o.totalItems = SumSeq(Map(o.items, LAMBDA it : it.quantity))
    /\ o.totalAmount = SumSeq(Map(o.items, LAMBDA it : it.subtotal))

\* an order of two items placed from the cart that carried an outdated
\* price: the order has the refreshed price and the totals of that price
C22_Witness ==
  \E r \in Requests :
    /\ Created(r) /\ RepricedCart \in workload.carts
    /\ Len(OrderOf(r).items) = 2
    /\ OrderOf(r).items[1].price = Price[8]
    /\ OrderOf(r).totalAmount = Price[8] + 2 * Price[10]
    /\ OrderOf(r).totalAmount # RepricedCart.totalAmount

\* ----------------------------------------------------------------- C23
\* invocation r answers in this step for an order it created
Answers(r) == ~Done(r) /\ saga'[r].pc = "done" /\ saga'[r].order # 0

\* the answer carries the order and a reason: the `reason` field of the
\* reservation-failure answer or the `paymentError` field of the
\* payment-failure answer
CarriesOrderAndReason(s) ==
  /\ s.response.order = s.order
  /\ s.response.reason \/ s.response.paymentError

\* the saga wrote status st to order o
SagaWrote(o, st) ==
  \E k \in 1..Len(o.timeline) : o.timeline[k].status = st /\ ~Override(o.timeline[k])

\* C23 as stated: when placeOrder answers for the order it created, it
\* answers 201 with the order exactly if the order is confirmed, and 400
\* with the order and a reason if the order is cancelled.
C23_AnswerMatchesStatus ==
  [][\A r \in Requests :
       Answers(r) =>
         LET s == saga'[r]
             o == orders'[s.order]
         IN
         /\ (s.response.code = 201 /\ s.response.order = s.order) <=> o.status = "confirmed"
         /\ o.status = "cancelled" => s.response.code = 400 /\ CarriesOrderAndReason(s)]_vars

\* C23 amended: the same with the status the saga wrote in place of the
\* status the order has: 201 with the order exactly if the saga confirmed
\* the order, 400 with the order and a reason exactly if the saga cancelled
\* it, the reason being `reason` after a failed reservation and
\* `paymentError` after a declined payment; the order has that status at the
\* answer unless a direct status update has been served for it.
C23_AnswerMatchesSagaOutcome ==
  [][\A r \in Requests :
       Answers(r) =>
         LET s == saga'[r]
             o == orders'[s.order]
         IN
         /\ (s.response.code = 201 /\ s.response.order = s.order) <=> SagaWrote(o, "confirmed")
         /\ (s.response.code = 400 /\ CarriesOrderAndReason(s)) <=> SagaWrote(o, "cancelled")
         /\ SagaWrote(o, "confirmed") # SagaWrote(o, "cancelled")
         /\ s.response.reason <=> s.inventoryReservationFailed
         /\ s.response.paymentError <=> s.paymentResult = "failed"
         /\ o.id \notin overridden' =>
              o.status = IF s.response.code = 201 THEN "confirmed" ELSE "cancelled"]_vars

\* of two invocations of a cold start one was answered 201 for a confirmed
\* order and the other 400 with the payment error for a cancelled one
C23_Witness ==
  /\ workload.earlier = 0
  /\ \E r, t \in Requests :
       /\ Done(r) /\ Created(r) /\ saga[r].response.code = 201
       /\ OrderOf(r).status = "confirmed"
       /\ Done(t) /\ Created(t) /\ saga[t].response.code = 400
       /\ saga[t].response.paymentError /\ OrderOf(t).status = "cancelled"

\* ----------------------------------------------------------------- C24
\* what the invocations together hold of product p: decreases applied less
\* increases applied
Held(p) ==
  SumSeq([r \in 1..MaxRequests |-> saga[r].decApplied[p] - saga[r].incApplied[p]])

\* the products service refused a decrease of invocation r on a product of
\* which another invocation t holds a reservation
LostRace(r, t) ==
  /\ r # t
  /\ saga[r].inventoryReservationFailed /\ saga[r].failKind = "business"
  /\ saga[t].decApplied[saga[r].failedProduct] > saga[t].incApplied[saga[r].failedProduct]

\* C24: the reservations held of a product never exceed its stock, so two
\* decreases that the stock covers only once never both succeed; an
\* invocation that lost the race, once it has answered, has called increase
\* for each of its earlier reservations and for nothing else (not for the
\* product it lost, which the winner keeps), has not called the payment, has
\* written cancelled and answered 400 with the order and the reason.
C24_RaceLoserCompensates ==
  /\ \A p \in Products : products[p].stock >= 0 /\ Held(p) = InitStock[p] - products[p].stock
  /\ \A r, t \in Requests :
       (LostRace(r, t) /\ Done(r)) =>
         LET s == saga[r]
             o == OrderOf(r)
         IN
         /\ CallPairs(CallsOf(r, "increase")) = ItemPairs(s.cart.items, s.idx - 1)
         /\ QuantityOf(CallsOf(r, "increase"), s.failedProduct) = 0
         /\ CallsOf(r, "payment") = <<>>
         /\ SagaWrote(o, "cancelled") /\ ~SagaWrote(o, "confirmed")
         /\ o.id \notin overridden => o.status = "cancelled"
         /\ s.response.code = 400 /\ s.response.order = s.order /\ s.response.reason

\* two invocations of a cold start raced for product 10: the loser had
\* reserved product 3 before, gave it back and was answered 400; the winner
\* holds product 10 and was answered 201
C24_Witness ==
  /\ workload.earlier = 0
  /\ \E r, t \in Requests :
       /\ LostRace(r, t) /\ Done(r) /\ saga[r].failedProduct = 10 /\ saga[r].idx = 2
       /\ saga[r].decApplied[3] = 1 /\ saga[r].incApplied[3] = 1
       /\ OrderOf(r).status = "cancelled"
       /\ Done(t) /\ saga[t].response.code = 201 /\ saga[t].decApplied[10] = 2
       /\ products[10].stock = 0

\* ----------------------------------------------------------------- C25
\* the position in which an invocation waits for a call through breaker n
WaitingOn(n) ==
  IF n = "products-service" THEN {"reserveWait", "rollbackWait"}
  ELSE IF n = "cart-service" THEN {"validateWait", "clearWait"}
  ELSE {"notifyCancelWait", "notifyWait"}

\* invocation r calls through breaker n in this step
Attempts(r, n) == MakesCall(r) /\ BreakerOf(NewCall(r).op) = n

\* the call invocation r waited for through breaker n ends in this step
Returns(r, n) == saga[r].pc \in WaitingOn(n) /\ saga'[r].pc # saga[r].pc

\* the call that ends in this step has failed: no reservation was recorded,
\* no increase was applied, the validation brought no cart, the clear call
\* is left without answer, the notification got none
ReturnsFailure(r) ==
  IF saga[r].pc = "reserveWait" THEN Len(saga'[r].stockUpdates) = Len(saga[r].stockUpdates)
  ELSE IF saga[r].pc = "rollbackWait" THEN saga'[r].incApplied = saga[r].incApplied
  ELSE IF saga[r].pc = "validateWait" THEN saga'[r].validation \notin {"passed", "unavailable"}
  ELSE IF saga[r].pc = "clearWait" THEN late' # late
  ELSE NotifyReturn(r, "failed") \/ NotifyCancelReturn(r, "failed")

\* C25: in every step, for every breaker, the call count grows by the
\* number of calls attempted through it in that step, the failure count by
\* the number of calls that ended in failure, and the success count by the
\* number that ended in success, whatever the other invocations that share
\* the breaker are doing; the counts change in no other way except that they
\* are zero again when the window has rotated out or the breaker turns
\* half-open.
C25_CountersExact ==
  [][\A n \in BreakerNames :
       LET b == breaker[n]
           c == breaker'[n]
           attempted == Cardinality({r \in Requests : Attempts(r, n)})
           failed == Cardinality({r \in Requests : Returns(r, n) /\ ReturnsFailure(r)})
           succeeded == Cardinality({r \in Requests : Returns(r, n) /\ ~ReturnsFailure(r)})
       IN
       IF HalfOpen(n) \/ RotateWindows
       THEN c.fires = 0 /\ c.failures = 0 /\ c.successes = 0
       ELSE /\ c.fires = b.fires + attempted
            /\ c.failures = b.failures + failed
            /\ c.successes = b.successes + succeeded]_vars

\* two invocations of a cold start both wait for the products service; the
\* window holds their three calls and the one answer received so far
C25_Witness ==
  /\ workload.earlier = 0
  /\ \E r, t \in Requests :
       /\ r # t /\ saga[r].pc = "reserveWait" /\ saga[t].pc = "reserveWait"
       /\ Len(CallsOf(r, "decrease")) + Len(CallsOf(t, "decrease")) = 3
       /\ breaker["products-service"].fires = 3
       /\ breaker["products-service"].successes + breaker["products-service"].failures = 1

\* ----------------------------------------------------------------- C26
\* the cart-clear call of invocation r is answered in this step
ClearSucceeds(r) == saga[r].pc = "clearWait" /\ saga'[r].pc # "clearWait" /\ late' = late

\* C26: when the cart-clear call of an invocation is answered, the order is
\* one the saga confirmed, the cart of the ordering user has no items,
\* totalItems 0 and totalAmount 0, and the cart of every other user is what
\* it was.
C26_ClearEmptiesCart ==
  [][\A r \in Requests :
       ClearSucceeds(r) =>
         LET u == saga[r].userId IN
         /\ SagaWrote(orders[saga[r].order], "confirmed")
         /\ carts'[u].items = <<>> /\ carts'[u].totalItems = 0 /\ carts'[u].totalAmount = 0
         /\ \A v \in Users \ {u} : carts'[v] = carts[v]]_vars

\* the clear call for u2's order has just been answered: u2's cart is
\* empty, u1's still holds its items
C26_Witness ==
  \E r \in Requests :
    /\ saga[r].pc = "notify" /\ running = r /\ saga[r].userId = "u2"
    /\ CallsOf(r, "clear") # <<>> /\ CallsOf(r, "clear")[1].sent
    /\ Late(r, "clear", 0, 0) \notin late
    /\ Len(saga[r].cart.items) > 0
    /\ carts["u2"] = EmptyCart
    /\ Len(carts["u1"].items) > 0
    /\ OrderOf(r).status = "confirmed"

\* ----------------------------------------------------------------- C27
\* C27: the answer to GET /api/orders/stats, with or without a userId in
\* the query, is the statistics of the ledger (of that user's orders): the
\* number of orders per status, the sum of totalAmount over the confirmed
\* orders, and that sum divided by their number, 0 when there are none.
C27_StatsAnswered ==
  [][\A userId \in {"", "u1"} :
       Get(StatsPath, userId) =>
         /\ replies'[Len(replies')].handler = "stats"
         /\ replies'[Len(replies')].data = OrderStats(orders, userId)]_vars

\* ----------------------------------------------------------------- C28
\* what the products service applied for invocation r on product p in this
\* step: decreases less increases
AppliedNow(r, p) ==
  (saga'[r].decApplied[p] - saga[r].decApplied[p])
    - (saga'[r].incApplied[p] - saga[r].incApplied[p])

\* the decrease invocation r waited for is answered by the service with a
\* refusal in this step
Refused(r) ==
  /\ saga[r].pc = "reserveWait" /\ saga'[r].pc # "reserveWait"
  /\ saga'[r].failKind = "business"

\* C28: in every state no stock is negative; after every stock update, and
\* in every state when the shop edits no product, a product is available
\* exactly if its stock is positive; in every step the stock of a product
\* goes down by what was applied as decrease (up by what was applied as
\* increase) and changes in no other way, a decrease is applied only when
\* the stock covers it, and a decrease the service refuses is one the stock
\* does not cover and leaves the whole table as it was.
C28_StockNeverNegative ==
  /\ [](\A p \in Products :
          /\ products[p].stock >= 0
          /\ ~workload.edits => (products[p].available <=> products[p].stock > 0))
  /\ [][/\ IF \A p \in Products : products'[p].stock = products[p].stock
           THEN \A r \in Requests :
                  /\ saga'[r].decApplied = saga[r].decApplied
                  /\ saga'[r].incApplied = saga[r].incApplied
           ELSE \A p \in Products :
                  /\ products'[p].stock # products[p].stock
                       => (products'[p].available <=> products'[p].stock > 0)
                  /\ products[p].stock - products'[p].stock
                       = SumSeq([r \in 1..nreq' |-> AppliedNow(r, p)])
                  /\ \A r \in Requests :
                       saga'[r].decApplied[p] > saga[r].decApplied[p]
                         => products[p].stock >= saga'[r].decApplied[p] - saga[r].decApplied[p]
        /\ \A r \in Requests :
             Refused(r) =>
               LET item == saga[r].cart.items[saga[r].idx] IN
               /\ products[item.productId].stock < item.quantity
               /\ products' = products]_vars

\* a decrease of 2 on product 10 has just been refused: the other order
\* took both pieces, the stock is 0 and the product unavailable
C28_Witness ==
  \E r \in Requests :
    /\ running = r /\ saga[r].pc = "rollback"
    /\ saga[r].failKind = "business" /\ saga[r].failedProduct = 10
    /\ saga[r].decApplied[10] = 0
    /\ products[10].stock = 0 /\ ~products[10].available
    /\ products[3].stock < InitStock[3]

\* ----------------------------------------------------------------- C29
\* what identifies an order and what it was placed for
Placed(o) ==
  [id |-> o.id, userId |-> o.userId, items |-> o.items,
   totalAmount |-> o.totalAmount, totalItems |-> o.totalItems]

\* the validation invocation r waited for passes in this step
PassesValidation(r) == saga[r].pc = "validateWait" /\ saga'[r].validation = "passed"

\* C29: in every step every order of the ledger stays at its place as the
\* order it was, and the ledger grows by at most one order; it grows exactly
\* when the validation of one placeOrder invocation passes, by the order of
\* that invocation, which is pending with payment status pending and has
\* the one timeline entry of its creation.
C29_LedgerAppendOnly ==
  [][/\ Len(orders') \in {Len(orders), Len(orders) + 1}
     /\ \A i \in 1..Len(orders) : Placed(orders'[i]) = Placed(orders[i])
     /\ Len(orders') = Len(orders) + 1 <=> \E r \in Requests : PassesValidation(r)
     /\ \A r \in Requests :
          PassesValidation(r) =>
            LET o == orders'[Len(orders')] IN
            /\ saga'[r].order = Len(orders')
            /\ \A t \in Requests \ {r} : saga'[t].order # Len(orders')
            /\ o.status = "pending" /\ o.paymentStatus = "pending"
            /\ o.timeline = << [status |-> "pending",
                                message |-> "Order created and pending validation"] >>
            /\ o.userId = saga[r].userId /\ o.items # <<>>]_vars

\* the second order of a cold start has just been appended behind a first
\* one that the saga has moved on since
C29_Witness ==
  /\ workload.earlier = 0
  /\ Len(orders) = 2
  /\ orders[1].status # "pending" /\ Len(orders[1].timeline) > 1
  /\ orders[2].status = "pending" /\ Len(orders[2].timeline) = 1
  /\ \E r \in Requests : running = r /\ saga[r].order = 2 /\ saga[r].pc = "reserve"

\* ----------------------------------------------------------------- C30
\* the positions of the calls of kind op in the record of invocation r
CallIndexes(r, op) == {k \in 1..Len(saga[r].calls) : saga[r].calls[k].op = op}

\* C30: an invocation calls the payment at most once; when it has, its
\* reservation has not failed, every item of its cart was reserved with a
\* decrease call made before the payment call and applied, and the saga had
\* written processing; the order had status and payment status processing
\* when the call was made; and the saga has written confirmed only with the
\* payment result success.
C30_PaymentOnceAfterReservation ==
  /\ [](\A r \in Requests :
          LET s == saga[r] IN
          /\ Cardinality(CallIndexes(r, "payment")) <= 1
          /\ s.inventoryReservationFailed => CallIndexes(r, "payment") = {}
          /\ CallIndexes(r, "payment") # {} =>
               /\ Created(r) /\ SagaWrote(OrderOf(r), "processing")
               /\ ~s.inventoryReservationFailed
               /\ Len(s.stockUpdates) = Len(s.cart.items)
               /\ CallPairs(CallsOf(r, "decrease")) = ItemPairs(s.cart.items, Len(s.cart.items))
               /\ \A k \in CallIndexes(r, "decrease"), m \in CallIndexes(r, "payment") : k < m
               /\ \A p \in Products : s.decApplied[p] = QuantityOf(s.cart.items, p)
          /\ (Created(r) /\ SagaWrote(OrderOf(r), "confirmed")) => s.paymentResult = "completed")
  /\ [][\A r \in Requests :
          (MakesCall(r) /\ NewCall(r).op = "payment")
            => /\ orders'[saga[r].order].status = "processing"
               /\ orders'[saga[r].order].paymentStatus = "processing"]_vars

\* of two invocations of a cold start one has paid once for its two
\* reserved items and is confirmed, the other failed to reserve and has
\* answered without a payment call
C30_Witness ==
  /\ workload.earlier = 0
  /\ \E r, t \in Requests :
       /\ Len(saga[r].cart.items) = 2 /\ Cardinality(CallIndexes(r, "payment")) = 1
       /\ saga[r].paymentResult = "completed" /\ OrderOf(r).status = "confirmed"
       /\ Done(t) /\ Created(t) /\ saga[t].inventoryReservationFailed
       /\ CallIndexes(t, "payment") = {}

\* ----------------------------------------------------------------- C31
\* C31: a reservation that a rollback loop has logged as restored is one
\* whose increase the products service has applied.
C31_RestoredMeansApplied ==
  \A r \in Requests :
    \A k \in 1..Len(LoggedRestored(saga[r])) :
      LET update == LoggedRestored(saga[r])[k] IN
      saga[r].incApplied[update.productId] >= update.quantity

\* ----------------------------------------------------------------- C32
\* C32: for every invocation and product, what the products service has
\* taken off the stock for the invocation is what the invocation's
\* reservation list holds of the product; a decrease the invocation gave up
\* waiting for has taken nothing off the stock.
C32_ReservationListExact ==
  \A r \in Requests :
    /\ \A p \in Products : saga[r].decApplied[p] = QuantityOf(saga[r].stockUpdates, p)
    /\ (saga[r].inventoryReservationFailed /\ saga[r].failKind = "failed")
         => saga[r].decApplied[saga[r].failedProduct] = 0

\* ----------------------------------------------------------------- C33
\* the cart service answers the validation invocation r waited for with a
\* refusal in this step: the cart is empty, or the availability of its
\* items could not be checked
ValidationRefused(r) ==
  saga[r].pc = "validateWait" /\ saga'[r].validation \in {"empty", "unchecked"}

\* breaker n counts one more failure, and is open afterwards when the
\* window then holds the volume threshold of calls with more than the
\* threshold share of failures
CountsFailure(n) ==
  /\ breaker'[n].failures = breaker[n].failures + 1
  /\ (breaker'[n].fires >= volumeThreshold
        /\ breaker'[n].failures * 100 > errorThresholdPercentage * breaker'[n].fires)
       => breaker'[n].state = "open"

\* C33: a refusal by the products service (insufficient stock) counts as a
\* failure of the products breaker, a refusal by the cart service (empty
\* cart, availability not checked) as a failure of the cart breaker, and
\* either opens its breaker like any other failure.
C33_RefusalsCountAsFailures ==
  [][\A r \in Requests :
       /\ Refused(r) => CountsFailure("products-service")
       /\ ValidationRefused(r) => CountsFailure("cart-service")]_vars

\* refusals alone have opened the cart breaker: every validation so far was
\* answered "cart is empty" or not sent at all, and the call of at least
\* one invocation was short-circuited
C33_Witness ==
  /\ breaker["cart-service"].state = "open"
  /\ \A r \in 1..nreq : saga[r].validation \in {"empty", "rejected"}
  /\ \E r \in 1..nreq :
       /\ saga[r].validation = "rejected" /\ ~saga[r].calls[1].sent
       /\ saga[r].response.code = 400
  /\ Cardinality({r \in 1..nreq : saga[r].validation = "empty"}) >= volumeThreshold

\* ----------------------------------------------------------------- C34
\* invocations r and t validated the same cart content: t's validation was
\* answered before the cart r had validated was cleared
SameCartValidated(r, t) ==
  /\ r # t
  /\ saga[r].userId = saga[t].userId
  /\ saga[r].validation = "passed" /\ saga[t].validation = "passed"
  /\ saga[r].cart = saga[t].cart
  /\ OrderOf(r).items = OrderOf(t).items

\* C34: two invocations of one user that validated the same cart do not both
\* have an order the saga confirmed.
C34_OneConfirmedOrderPerCart ==
  \A r, t \in Requests :
    (Created(r) /\ Created(t) /\ SameCartValidated(r, t))
      => ~(SagaWrote(OrderOf(r), "confirmed") /\ SagaWrote(OrderOf(t), "confirmed"))

\* ----------------------------------------------------------------- C35
\* the cart of user u is emptied in this step
Emptied(u) == carts[u].items # <<>> /\ carts'[u].items = <<>>

\* C35: when a cart is emptied, the user has an order the saga confirmed
\* that holds everything the cart held at that moment: no product is in
\* the cart with a larger quantity than in the order.
C35_ClearRemovesOrderedItemsOnly ==
  [][\A u \in Users :
       Emptied(u) =>
         \E r \in Requests :
           /\ saga[r].userId = u /\ Created(r) /\ SagaWrote(OrderOf(r), "confirmed")
           /\ \A p \in Products :
                QuantityOf(carts[u].items, p) <= QuantityOf(OrderOf(r).items, p)]_vars

\* ----------------------------------------------------------------- C36
\* the products and quantities of a cart, without the prices
Contents(items) == [i \in 1..Len(items) |-> <<items[i].productId, items[i].quantity>>]

\* the change of u's cart in this step is the user's own POST /api/cart/add
\* or the cart-clear of an invocation of u whose order the saga confirmed
AddedOrClearedAfterConfirmation(u) ==
  \/ nadds' = nadds + 1
  \/ /\ carts'[u].items = <<>>
     /\ \E r \in Requests :
          /\ saga[r].userId = u /\ Created(r) /\ SagaWrote(OrderOf(r), "confirmed")
          /\ \E k \in CallIndexes(r, "clear") : saga[r].calls[k].sent

\* every cart-clear call is made by an invocation whose order the saga
\* has confirmed
ClearCalledAfterConfirmation ==
  \A r \in Requests :
    CallIndexes(r, "clear") # {}
      => /\ Created(r) /\ SagaWrote(OrderOf(r), "confirmed")
         /\ ~SagaWrote(OrderOf(r), "cancelled")

\* C36 as stated: the cart-clear call is made only after the saga confirmed
\* the order, and the items of a cart change only by the user's own add or
\* by the clear of a confirmed order; an invocation that fails validation or
\* is cancelled changes nothing in them.
C36_CartItemsKeptUnlessConfirmed ==
  /\ [](ClearCalledAfterConfirmation)
  /\ [][\A u \in Users :
          carts'[u].items # carts[u].items => AddedOrClearedAfterConfirmation(u)]_vars

\* C36, amended: the same for the products and quantities of the cart; the
\* prices of the items are refreshed by every successful validation, also
\* that of an invocation that is cancelled afterwards.
C36_CartContentsKeptUnlessConfirmed ==
  /\ [](ClearCalledAfterConfirmation)
  /\ [][\A u \in Users :
          Contents(carts'[u].items) # Contents(carts[u].items)
            => AddedOrClearedAfterConfirmation(u)]_vars

\* an invocation on the repriced cart was cancelled: the cart holds the
\* products and quantities it held, at refreshed prices, and no clear was called
C36_Witness ==
  \E r \in Requests :
    /\ Done(r) /\ Created(r) /\ SagaWrote(OrderOf(r), "cancelled")
    /\ RepricedCart \in workload.carts
    /\ CallIndexes(r, "clear") = {}
    /\ Contents(carts[saga[r].userId].items) = Contents(RepricedCart.items)
    /\ carts[saga[r].userId].items # RepricedCart.items

\* ----------------------------------------------------------------- C37
\* the sendNotification calls of invocation r, by position in its calls
Notifications(r) == CallIndexes(r, "order_cancelled") \cup CallIndexes(r, "order_confirmed")

SagaPairs ==
  {<<"pending", "pending">>, <<"processing", "processing">>,
   <<"confirmed", "completed">>, <<"cancelled", "failed">>}

\* C38: an order no direct status update has written to has one of the four
\* pairs of status and payment status; it is confirmed exactly if its
\* payment is completed.
C38_StatusAndPaymentPaired ==
  \A k \in 1..Len(orders) :
    orders[k].id \notin overridden
      => /\ <<orders[k].status, orders[k].paymentStatus>> \in SagaPairs
         /\ orders[k].status = "confirmed" <=> orders[k].paymentStatus = "completed"

\* two orders of a cold start, written by the saga only: one confirmed with
\* a completed payment, the other cancelled with a failed one
C38_Witness ==
  /\ workload.earlier = 0 /\ overridden = {}
  /\ \E k, m \in 1..Len(orders) :
       /\ <<orders[k].status, orders[k].paymentStatus>> = <<"confirmed", "completed">>
       /\ <<orders[m].status, orders[m].paymentStatus>> = <<"cancelled", "failed">>

\* ----------------------------------------------------------------- C39
\* C39: in every state, for every product and every quantity the stock
\* covers, the decrease of that quantity followed by the increase of the
\* same quantity gives the product table back: the stock and the flag of
\* the product are what they were, also when the decrease takes the stock to 0.
C39_DecreaseThenIncreaseRestores ==
  \A p \in Products, q \in 1..MaxQty :
    StockAccepted(products, p, q, "decrease")
      => /\ StockAccepted(StockApplied(products, p, q, "decrease"), p, q, "increase")
         /\ StockApplied(StockApplied(products, p, q, "decrease"), p, q, "increase") = products

\* ----------------------------------------------------------------- C40
\* C40: a breaker that rejects calls (it is open, or half-open with its
\* trial call under way) comes to let a call through again: the reset
\* timer arms a trial call, or the trial under way succeeds and closes the
\* breaker.  A success recorded on a half-open breaker closes it, and every
\* call made through a closed breaker is sent to the dependency.
C40_OpenBreakerRecovers ==
  /\ \A n \in BreakerNames : Rejects(breaker[n]) ~> ~Rejects(breaker[n])
  /\ [][\A n \in BreakerNames :
          /\ (breaker[n].state = "open" /\ breaker'[n].state # "open")
               => breaker'[n].state = "halfOpen" /\ ~Rejects(breaker'[n])
          /\ (breaker[n].state = "halfOpen" /\ SuccessRecorded(n))
               => breaker'[n].state = "closed"
          /\ \A r \in Requests :
               (CallsThrough(r, n) /\ breaker[n].state = "closed") => NewCall(r).sent]_vars

\* the order a client placed has opened the products breaker and had a
\* compensation rejected; the order placed next made the trial call after
\* the cooldown, the call succeeded and closed the breaker, and the call for
\* its next item has been sent
C40_Witness ==
  LET n == "products-service" IN
  /\ workload.sequential
  /\ breaker[n].state = "closed"
  /\ \E r, t \in Requests :
       /\ r < t
       /\ \E i \in CallIndexes(r, "increase") : ~saga[r].calls[i].sent
       /\ Len(saga[t].stockUpdates) >= 1
       /\ \E j, k \in CallIndexes(t, "decrease") :
            j < k /\ saga[t].calls[j].sent /\ saga[t].calls[k].sent
====
